---- MODULE Spec2Model ----
(***************************************************************************)
(* Tenant-App: the maintenance-request pipeline.                           *)
(*   - determineFallbackUrgency and the analyze-request route              *)
(*     (src/unnamed/part_000)                                              *)
(*   - the maintenance POST route (src/unnamed/part_001)                   *)
(*   - the upload-images route (src/app/api/messages/route.ts, 184-241)    *)
(* Strings are modelled by their characters; JavaScript values that the    *)
(* code tests with || keep their type, so that truthiness is computed.     *)
(***************************************************************************)
EXTENDS Integers, Sequences, FiniteSets, TLC

(***************************************************************************)
(* Strings.  A string is  s . '~'^pad . ("..." when dots): the characters  *)
(* s written out, followed by pad filler characters '~' (a character of no *)
(* keyword), followed by the three dots the truncation appends.            *)
(***************************************************************************)
Str(chars, padding) == [s |-> chars, pad |-> padding, dots |-> FALSE]

EmptyStr == Str(<<>>, 0)

StrLen(x) == Len(x.s) + x.pad + (IF x.dots THEN 3 ELSE 0)

Min(a, b) == IF a < b THEN a ELSE b

UpperAlpha ==
    <<"A","B","C","D","E","F","G","H","I","J","K","L","M",
      "N","O","P","Q","R","S","T","U","V","W","X","Y","Z">>

LowerAlpha ==
    <<"a","b","c","d","e","f","g","h","i","j","k","l","m",
      "n","o","p","q","r","s","t","u","v","w","x","y","z">>

ToLowerChar(c) ==
    IF \E i \in 1..Len(UpperAlpha) : UpperAlpha[i] = c
    THEN LowerAlpha[CHOOSE i \in 1..Len(UpperAlpha) : UpperAlpha[i] = c]
    ELSE c

\* String.prototype.toLowerCase
toLowerCase(x) ==
    [x EXCEPT !.s = [i \in 1..Len(x.s) |-> ToLowerChar(x.s[i])]]

\* RegExp.prototype.test for one alternative of a pattern: a substring search
Includes(chars, pat) ==
    \E i \in 1..(Len(chars) - Len(pat) + 1) :
        SubSeq(chars, i, i + Len(pat) - 1) = pat

\* /(a|b|...)/.test(x): the filler and the dots are characters of no pattern
RegexTest(pats, x) == \E p \in pats : Includes(x.s, p)

CriticalPatterns ==
    { <<"g","a","s"," ","l","e","a","k">>,
      <<"e","l","e","c","t","r","i","c","a","l"," ","s","p","a","r","k">>,
      <<"f","i","r","e"," ","h","a","z","a","r","d">>,
      <<"f","l","o","o","d">>,
      <<"n","o"," ","p","o","w","e","r">>,
      <<"b","r","o","k","e","n"," ","w","i","n","d","o","w">>,
      <<"n","o"," ","l","o","c","k">>,
      <<"n","o"," ","h","e","a","t">>,
      <<"n","o"," ","w","a","t","e","r">>,
      <<"r","a","w"," ","s","e","w","a","g","e">>,
      <<"e","x","p","o","s","e","d"," ","w","i","r","e">>,
      <<"s","t","r","u","c","t","u","r","a","l"," ","c","o","l","l","a","p","s","e">> }

HighPatterns ==
    { <<"l","e","a","k">>,
      <<"f","l","o","o","d","i","n","g">>,
      <<"e","l","e","c","t","r","i","c","a","l">>,
      <<"n","o","t"," ","w","o","r","k","i","n","g">>,
      <<"b","r","o","k","e","n">>,
      <<"c","l","o","g">>,
      <<"o","v","e","r","f","l","o","w">>,
      <<"p","e","s","t">>,
      <<"m","o","l","d">>,
      <<"n","o"," ","h","o","t"," ","w","a","t","e","r">>,
      <<"w","a","t","e","r"," ","d","a","m","a","g","e">>,
      <<"e","x","p","o","s","e","d"," ","p","i","p","e">> }

MediumPatterns ==
    { <<"s","l","o","w">>,
      <<"d","r","i","p">>,
      <<"m","i","n","o","r">>,
      <<"c","o","s","m","e","t","i","c">>,
      <<"p","a","i","n","t">>,
      <<"s","c","r","a","t","c","h">>,
      <<"l","o","o","s","e">>,
      <<"s","t","a","i","n">>,
      <<"s","t","i","c","k","i","n","g">>,
      <<"n","o","i","s","y">> }

DetermineFallbackUrgencyHighFirst(description) ==
    LET lowerDesc == toLowerCase(description)
    IN  IF RegexTest(HighPatterns, lowerDesc) THEN 3
        ELSE IF RegexTest(CriticalPatterns, lowerDesc) THEN 4
        ELSE 2

determineFallbackUrgency(description) ==
    LET lowerDesc == toLowerCase(description)
    IN  IF RegexTest(CriticalPatterns, lowerDesc) THEN 4
        ELSE IF RegexTest(HighPatterns, lowerDesc) THEN 3
        ELSE IF RegexTest(MediumPatterns, lowerDesc) THEN 2
        ELSE 2

(***************************************************************************)
(* Inputs of the classifier: descriptions of up to MaxWords words.         *)
(***************************************************************************)
MaxWords == 3

Words ==
    { <<"g","a","s"," ">>,
      <<"l","e","a","k">>,
      <<"F","l","o","o","d">>,
      <<"i","n","g">>,
      <<"n","o"," ">>,
      <<"h","o","t"," ">>,
      <<"w","a","t","e","r">>,
      <<"B","r","o","k","e","n">>,
      <<"d","r","i","p">>,
      <<"S","L","O","W">> }

RECURSIVE Concat(_)
Concat(ws) == IF ws = <<>> THEN <<>> ELSE Head(ws) \o Concat(Tail(ws))

Descriptions ==
    { Str(Concat(ws), 0) :
        ws \in UNION { [1..n -> Words] : n \in 0..MaxWords } }

(***************************************************************************)
(* JavaScript values, as far as the code tests them with !, || and switch. *)
(***************************************************************************)
JSUndef == [t |-> "undefined"]

JSNum(k) == [t |-> "number", num |-> k]

JSStr(x) == [t |-> "string", str |-> x]

JSArr(xs) == [t |-> "array", arr |-> xs]

JSObj(tag) == [t |-> "object", obj |-> tag]

\* ToBoolean: undefined, 0 and "" are falsy; arrays and objects are truthy
Truthy(v) ==
    CASE v.t = "undefined" -> FALSE
      [] v.t = "number"    -> v.num # 0
      [] v.t = "string"    -> StrLen(v.str) > 0
      [] OTHER             -> TRUE

\* a || b
OrElse(a, b) == IF Truthy(a) THEN a ELSE b

(***************************************************************************)
(* The analyze-request route (src/unnamed/part_000).                       *)
(* A request is its JSON body and whether the body stream was read.        *)
(* remote is what the call to the Python service does.                     *)
(***************************************************************************)
Body(userText, imageDescriptions, title, userDescription, imageAnalysis, frontendAiAnalysis) ==
    [ userText |-> userText, imageDescriptions |-> imageDescriptions,
      title |-> title, userDescription |-> userDescription,
      imageAnalysis |-> imageAnalysis, frontendAiAnalysis |-> frontendAiAnalysis ]

\* Request.json(): rejects with a TypeError once the body has been read
ReqJson(bodyUsed, body) ==
    IF bodyUsed THEN [threw |-> TRUE, value |-> body]
    ELSE [threw |-> FALSE, value |-> body]

RECURSIVE Join(_)
\* Array.prototype.join(" ") of strings
Join(xs) ==
    IF xs = <<>> THEN <<>>
    ELSE IF Len(xs) = 1 THEN xs[1].str.s
    ELSE xs[1].str.s \o <<" ">> \o Join(Tail(xs))

JsonResponse(status, kind, summary, urgencyLevel) ==
    [ status |-> status, kind |-> kind, summary |-> summary,
      urgencyLevel |-> urgencyLevel ]

\* An exception that leaves the handler: the framework answers 500
Unhandled == JsonResponse(500, "unhandled", JSUndef, JSUndef)

\* the catch block, lines 33-48
AnalyzeRequestCatch(bodyUsed, body) ==
    LET again == ReqJson(bodyUsed, body)
        userText == again.value.userText
        imageDescriptions == again.value.imageDescriptions
        joined == IF imageDescriptions.t = "array"
                  THEN JSStr(Str(Join(imageDescriptions.arr), 0))
                  ELSE JSUndef
        fallbackSummary ==
            OrElse(OrElse(userText, joined), JSStr(Str(<<"M">>, 18)))
    IN  IF again.threw THEN Unhandled
        ELSE JsonResponse(200, "fallback", fallbackSummary,
                          JSNum(determineFallbackUrgency(fallbackSummary.str)))

\* POST, lines 5-49
AnalyzeRequestPOST(body, remote) ==
    LET first == ReqJson(FALSE, body)
        userText == first.value.userText
        imageDescriptions == first.value.imageDescriptions
    IN  IF ~Truthy(userText) /\ ~Truthy(imageDescriptions)
        THEN JsonResponse(400, "no content", JSUndef, JSUndef)
        ELSE IF remote.threw \/ ~remote.ok
        THEN AnalyzeRequestCatch(TRUE, body)
        ELSE JsonResponse(200, "result", remote.summary, remote.urgencyLevel)

\* What the Python service may do: the call throws, answers non-OK, or
\* answers with a result
RemoteThrow == [threw |-> TRUE, ok |-> FALSE, summary |-> JSUndef, urgencyLevel |-> JSUndef]

RemoteNotOk == [threw |-> FALSE, ok |-> FALSE, summary |-> JSUndef, urgencyLevel |-> JSUndef]

RemoteOk(summary, urgencyLevel) ==
    [threw |-> FALSE, ok |-> TRUE, summary |-> summary, urgencyLevel |-> urgencyLevel]

RemoteSummary == JSStr(Str(<<"s","u","m">>, 0))

RemoteOutcomes ==
    { RemoteThrow, RemoteNotOk }
    \cup { RemoteOk(RemoteSummary, JSNum(k)) : k \in 1..4 }
    \cup { RemoteOk(JSUndef, JSUndef) }

\* Request texts of the endpoint's callers
MaxBodyWords == 2

BodyTexts ==
    { JSUndef, JSStr(EmptyStr) } \cup
    { JSStr(Str(Concat(ws), 0)) :
        ws \in UNION { [1..n -> {<<"l","e","a","k">>, <<"d","r","i","p">>, <<"F","l","o","o","d">>}]
                        : n \in 1..MaxBodyWords } }

BodyLists ==
    { JSUndef, JSArr(<<>>), JSArr(<<JSStr(Str(<<"c","l","o","g">>, 0))>>) }

\* {userText, imageDescriptions} and {title, userDescription, imageAnalysis,
\* frontendAiAnalysis}
RequestBodies ==
    { Body(u, d, JSUndef, JSUndef, JSUndef, JSUndef) : u \in BodyTexts, d \in BodyLists }
    \cup
    { Body(JSUndef, JSUndef, JSStr(Str(<<>>, 5)), u, JSObj("null"), JSObj("null")) :
        u \in BodyTexts \ {JSUndef} }

(***************************************************************************)
(* Procedure texts.  A text is a sequence of tokens: a line break, a       *)
(* "Step N:" marker, a piece of text without line break or marker (with    *)
(* the value interpolated into it, if any), a translated piece of text, an *)
(* HTML-like tag, or the echoed prompt.                                    *)
(***************************************************************************)
Tok(k, n, id, arg) == [k |-> k, n |-> n, id |-> id, arg |-> arg]

NL == Tok("nl", 0, "", JSUndef)

StepTok(n) == Tok("step", n, "", JSUndef)

Txt(id) == Tok("txt", 0, id, JSUndef)

TxtArg(id, arg) == Tok("txt", 0, id, arg)

TagTok == Tok("tag", 0, "", JSUndef)

PromptTok == Tok("prompt", 0, "", JSUndef)

RECURSIVE SplitLines(_)
\* String.prototype.split('\n'): n line breaks give n + 1 lines
SplitLines(toks) ==
    IF \A i \in 1..Len(toks) : toks[i] # NL THEN <<toks>>
    ELSE LET i == CHOOSE j \in 1..Len(toks) :
                      toks[j] = NL /\ \A h \in 1..(j - 1) : toks[h] # NL
         IN  <<SubSeq(toks, 1, i - 1)>> \o SplitLines(SubSeq(toks, i + 1, Len(toks)))

RECURSIVE JoinLines(_)
\* Array.prototype.join('\n')
JoinLines(lines) ==
    IF lines = <<>> THEN <<>>
    ELSE IF Len(lines) = 1 THEN lines[1]
    ELSE lines[1] \o <<NL>> \o JoinLines(Tail(lines))

RECURSIVE Trim(_)
\* String.prototype.trim: line breaks at either end are white space
Trim(toks) ==
    IF toks = <<>> THEN toks
    ELSE IF Head(toks) = NL THEN Trim(Tail(toks))
    ELSE IF toks[Len(toks)] = NL THEN Trim(SubSeq(toks, 1, Len(toks) - 1))
    ELSE toks

RECURSIVE RemoveFirst(_, _)
\* String.prototype.replace(string, ''): the first occurrence only
RemoveFirst(toks, tok) ==
    IF toks = <<>> THEN toks
    ELSE IF Head(toks) = tok THEN Tail(toks)
    ELSE <<Head(toks)>> \o RemoveFirst(Tail(toks), tok)

\* replace(/<[^>]*>/g, '')
RemoveTags(toks) == SelectSeq(toks, LAMBDA x : x # TagTok)

\* lines 198-204: the generated text, cleaned up
CleanProcedure(generated) == Trim(RemoveTags(RemoveFirst(generated, PromptTok)))

\* line 208: the procedure used when the generation call throws
CatchProcedure(finalProcessedRequest) ==
    << StepTok(1), TxtArg("Inspect the reported issue:", finalProcessedRequest), NL,
       StepTok(2), Txt("Gather necessary tools and materials"), NL,
       StepTok(3), Txt("Perform required repairs"), NL,
       StepTok(4), Txt("Test the repair"), NL,
       StepTok(5), Txt("Clean up and document work") >>

\* lines 215-216: the lines that start with 'Step', and their contents
StepLines(procedureText) ==
    SelectSeq(SplitLines(procedureText),
              LAMBDA line : line # <<>> /\ line[1].k = "step")

StepContent(step) == Tail(step)

\* what the translation service answers for one step
Translated(content) ==
    IF content = <<>> THEN <<>>
    ELSE <<Tok("tl", 0, content[1].id, content[1].arg)>>

\* lines 218-243: failed is the set of steps whose translation call fails
TranslateProcedure(procedureText, failed) ==
    LET steps == StepLines(procedureText)
        translatedSteps ==
            [i \in 1..Len(steps) |->
                IF i \in failed THEN StepContent(steps[i])
                ELSE LET t == Translated(StepContent(steps[i]))
                     IN  IF t = <<>> THEN StepContent(steps[i]) ELSE t]
    IN  JoinLines([i \in 1..Len(steps) |->
                      <<StepTok(steps[i][1].n)>> \o translatedSteps[i]])

\* a slot of the Promise.all result whose call has not settled
Unsettled == <<Tok("pending", 0, "", JSUndef)>>

\* the result of a call stored at the first free slot
SettleInArrivalOrder(slots, i, text) ==
    LET j == CHOOSE k \in 1..Len(slots) :
                 slots[k] = Unsettled /\ \A h \in 1..(k - 1) : slots[h] # Unsettled
    IN  [slots EXCEPT ![j] = text]

\* lines 218-238: Promise.all keeps the result of call i at index i
SettleStep(slots, i, text) == [slots EXCEPT ![i] = text]

\* a failed call that leaves its step without text
TranslationResultNoFallback(step, outcome) ==
    IF outcome = "failed" THEN <<>> ELSE Translated(step)

\* lines 220-236: what the callback of one step returns; the outcome is
\* "failed" when the call throws or its answer carries no translation_text
TranslationResult(step, outcome) ==
    IF outcome = "failed" \/ Translated(step) = <<>> THEN step ELSE Translated(step)

\* lines 240-243
AssembleSteps(steps, translated) ==
    JoinLines([i \in 1..Len(steps) |-> <<StepTok(steps[i][1].n)>> \o translated[i]])

RECURSIVE BreakBeforeSteps(_)
\* replace(/(Step \d+:)/g, '\n$1')
BreakBeforeSteps(toks) ==
    IF toks = <<>> THEN toks
    ELSE IF Head(toks).k = "step"
         THEN <<NL, Head(toks)>> \o BreakBeforeSteps(Tail(toks))
         ELSE <<Head(toks)>> \o BreakBeforeSteps(Tail(toks))

RECURSIVE CollapseBreaks(_)
\* replace(/\n+/g, '\n')
CollapseBreaks(toks) ==
    IF Len(toks) < 2 THEN toks
    ELSE IF toks[1] = NL /\ toks[2] = NL THEN CollapseBreaks(Tail(toks))
    ELSE <<Head(toks)>> \o CollapseBreaks(Tail(toks))

\* lines 421 and 423: the formatter's own templates
TemplateTagalog(summary) ==
    << StepTok(1), TxtArg("Suriin ang iniulat na isyu:", summary), NL,
       StepTok(2), Txt("Tayahin ang kinakailangang pagkumpuni at tipunin ang mga materyales"), NL,
       StepTok(3), Txt("Isagawa ang kinakailangang pag-aayos"), NL,
       StepTok(4), Txt("Subukan kung naayos na ang isyu"), NL,
       StepTok(5), Txt("Linisin ang lugar at i-update ang mga talaan ng pag-aayos") >>

TemplateEnglish(summary) ==
    << StepTok(1), TxtArg("Inspect the reported issue:", summary), NL,
       StepTok(2), Txt("Assess necessary repairs and gather materials"), NL,
       StepTok(3), Txt("Perform the required maintenance work"), NL,
       StepTok(4), Txt("Test that the issue is resolved"), NL,
       StepTok(5), Txt("Clean the work area and update maintenance records") >>

\* lines 437-445
getUrgencyText(urgencyLevel) ==
    CASE urgencyLevel = JSNum(1) -> "Low"
      [] urgencyLevel = JSNum(2) -> "Medium"
      [] urgencyLevel = JSNum(3) -> "High"
      [] urgencyLevel = JSNum(4) -> "Critical"
      [] OTHER -> "Medium"

ToUpperChar(c) ==
    IF \E i \in 1..Len(LowerAlpha) : LowerAlpha[i] = c
    THEN UpperAlpha[CHOOSE i \in 1..Len(LowerAlpha) : LowerAlpha[i] = c]
    ELSE c

\* String.prototype.toUpperCase
toUpperCase(x) ==
    [x EXCEPT !.s = [i \in 1..Len(x.s) |-> ToUpperChar(x.s[i])]]

\* lines 407-435
formatProcedureMessage(title, procedure, summary, urgency, isTagalog) ==
    LET normalized == Trim(CollapseBreaks(BreakBeforeSteps(procedure)))
        cleanedProcedure ==
            IF normalized = <<>> \/ Len(SplitLines(normalized)) < 3
            THEN IF isTagalog THEN TemplateTagalog(summary) ELSE TemplateEnglish(summary)
            ELSE normalized
    IN  [ title |-> toUpperCase(title),
          languageNote |-> IF isTagalog THEN "(Translated to Tagalog)" ELSE "",
          urgency |-> urgency,
          urgencyText |-> getUrgencyText(urgency),
          summary |-> summary,
          procedure |-> cleanedProcedure,
          noteText |-> IF isTagalog THEN "Paunawa" ELSE "Note" ]

(***************************************************************************)
(* The upload-images route (src/app/api/messages/route.ts, 184-241).       *)
(* failAt is the first image whose PUT to the repository host is not OK    *)
(* (0: none).                                                              *)
(***************************************************************************)
Base64Len(size) == 4 * ((size + 2) \div 3)

\* part_001, lines 261-266: name and base64 content of every image
EncodedImages(images) ==
    [i \in 1..Len(images) |->
        [name |-> images[i].name, content |-> Base64Len(images[i].size)]]

UploadedUrl(folderName, name) == [kind |-> "url", folder |-> folderName, name |-> name]

UploadImagesPOST(images, folderName, failAt) ==
    LET bad == { i \in 1..Len(images) :
                    \/ images[i].name = "" \/ images[i].content = 0
                    \/ i = failAt }
    IN  IF Len(images) = 0 \/ folderName = 0
        THEN [success |-> FALSE, urls |-> <<>>]
        ELSE IF bad # {}
        THEN [success |-> FALSE, urls |-> <<>>]
        ELSE [success |-> TRUE,
              urls |-> [i \in 1..Len(images) |-> UploadedUrl(folderName, images[i].name)]]

\* part_001, lines 284 and 290: the failure markers
FailedToUpload == [kind |-> "Failed to upload", folder |-> 0, name |-> ""]

UploadUnavailable ==
    [kind |-> "Image upload service temporarily unavailable", folder |-> 0, name |-> ""]

UploadFailureDropsBatch(githubRes) ==
    IF ~githubRes.success THEN <<>> ELSE githubRes.urls

\* part_001, lines 282-287
UrlsOfUpload(githubRes) ==
    IF ~githubRes.success THEN <<FailedToUpload>> ELSE githubRes.urls

\* part_001, line 314: url.split('/').pop() || 'unknown'
FileNameOf(url) == IF url.kind = "url" THEN url.name ELSE url.kind

(***************************************************************************)
(* The maintenance POST route (src/unnamed/part_001): its inputs.          *)
(***************************************************************************)
TitleMinLen == 5

DescMinLen == 10

MaxImagesAllowed == 5

MaxFileSize == 10 * 1024 * 1024

TruncateAt == 200

DefaultUrgency == 2

LandlordId == 2

\* image.type.startsWith('image/')
\* a check of the type that lets every file through
AnyFileType(type) == TRUE

IsImageType(type) == type \in {"image/jpeg", "image/png"}

\* parseInt of the userId form field; 0 stands for NaN
ParseInt(s) ==
    CASE s = "1" -> 1 [] s = "2" -> 2 [] s = "3" -> 3 [] s = "4" -> 4 [] s = "9" -> 9 [] OTHER -> 0

\* the users table: userID -> propertyId (0: no property)
UsersTable == [u \in {1, 3, 4} |-> CASE u = 1 -> 7 [] u = 3 -> 0 [] u = 4 -> 8]

Img(name, type, size) == [name |-> name, type |-> type, size |-> size]

ImgOk == Img("a.jpg", "image/jpeg", 2048)

Form(session, title, rawRequest, userId, images, translateToTagalog, aiAnalysis) ==
    [ session |-> session, title |-> title, rawRequest |-> rawRequest,
      userId |-> userId, images |-> images,
      translateToTagalog |-> translateToTagalog, aiAnalysis |-> aiAnalysis ]

Title5 == Str(<<"L","e","a","k","y">>, 0)

Leak10 == Str(<<"a"," ","l","e","a","k">>, 4)

Drip201 == Str(<<"d","r","i","p">>, 197)

ValidForms ==
    { Form("1", Title5, Leak10, "1", <<ImgOk>>, FALSE, "absent"),
      Form("1", Title5, Leak10, "1", <<ImgOk>>, TRUE, "absent"),
      Form("1", Title5, Drip201, "1", <<ImgOk, Img("b.png", "image/png", 1)>>, FALSE, "valid"),
      Form("1", Title5, Leak10, "1", <<ImgOk>>, FALSE, "malformed"),
      Form("1", Title5, Leak10, "4",
           <<ImgOk, ImgOk, ImgOk, ImgOk, Img("e.png", "image/png", MaxFileSize)>>, FALSE, "absent"),
      Form("1", Title5, Leak10, "1", <<Img("z.png", "image/png", 0)>>, FALSE, "absent") }

InvalidForms ==
    { Form("", Title5, Leak10, "1", <<ImgOk>>, FALSE, "absent"),
      Form("1", Str(<<"L","e","a","k">>, 0), Leak10, "1", <<ImgOk>>, FALSE, "absent"),
      Form("1", EmptyStr, Leak10, "1", <<ImgOk>>, FALSE, "absent"),
      Form("1", Title5, Str(<<"l","e","a","k">>, 5), "1", <<ImgOk>>, FALSE, "absent"),
      Form("1", Title5, EmptyStr, "1", <<ImgOk>>, FALSE, "absent"),
      Form("1", Title5, Leak10, "1", <<>>, FALSE, "absent"),
      Form("1", Title5, Leak10, "1", <<ImgOk, ImgOk, ImgOk, ImgOk, ImgOk, ImgOk>>, TRUE, "valid"),
      Form("1", Title5, Leak10, "1", <<ImgOk, Img("d.pdf", "application/pdf", 10)>>, FALSE, "absent"),
      Form("1", Title5, Leak10, "1", <<Img("big.png", "image/png", MaxFileSize + 1)>>, FALSE, "absent"),
      Form("1", Title5, Leak10, "3", <<ImgOk>>, FALSE, "absent"),
      Form("1", Title5, Leak10, "9", <<ImgOk>>, FALSE, "absent"),
      Form("1", Title5, Leak10, "abc", <<ImgOk>>, FALSE, "absent") }

Forms == ValidForms \cup InvalidForms

\* lines 43-63: the message of the first check that fails, "" when none does
ValidationError(form) ==
    LET images == form.images
    IN  IF StrLen(form.title) = 0 \/ StrLen(form.rawRequest) = 0 \/ Len(images) = 0
           THEN "All fields including at least one image are required."
        ELSE IF StrLen(form.title) < TitleMinLen
           THEN "Title must be at least 5 characters long."
        ELSE IF StrLen(form.rawRequest) < DescMinLen
           THEN "Description must be at least 10 characters long."
        ELSE IF Len(images) > MaxImagesAllowed
           THEN "Maximum of 5 images allowed."
        ELSE IF \E i \in 1..Len(images) :
                   /\ ~IsImageType(images[i].type)
                   /\ \A j \in 1..(i - 1) :
                         IsImageType(images[j].type) /\ images[j].size <= MaxFileSize
           THEN "Only image files are allowed."
        ELSE IF \E i \in 1..Len(images) : images[i].size > MaxFileSize
           THEN "File size must be below 10MB."
        ELSE ""

\* substring(0, 200) alone
Substring200(rawRequest) ==
    IF StrLen(rawRequest) > TruncateAt
    THEN Str(SubSeq(rawRequest.s, 1, Min(TruncateAt, Len(rawRequest.s))),
             TruncateAt - Min(TruncateAt, Len(rawRequest.s)))
    ELSE rawRequest

\* lines 151-153 and 158-160
Truncated(rawRequest) ==
    IF StrLen(rawRequest) > TruncateAt
    THEN [ s |-> SubSeq(rawRequest.s, 1, Min(TruncateAt, Len(rawRequest.s))),
           pad |-> TruncateAt - Min(TruncateAt, Len(rawRequest.s)),
           dots |-> TRUE ]
    ELSE rawRequest

\* what the image-analysis service may answer (lines 94-115); an unreadable
\* answer is an OK answer whose results make lines 106-112 throw
AnalysisOutcomes == {"throw", "not ok", "no results", "results", "unreadable"}

\* what the server at baseUrl may answer to the summarization request
SummarizationResponses ==
    { JsonResponse(0, "throw", JSUndef, JSUndef),
      JsonResponse(400, "no content", JSUndef, JSUndef),
      JsonResponse(200, "result", RemoteSummary, JSNum(3)),
      JsonResponse(200, "result", RemoteSummary, JSNum(1)),
      JsonResponse(200, "result", JSUndef, JSUndef),
      JsonResponse(200, "result", RemoteSummary, JSNum(0)),
      JsonResponse(200, "result", RemoteSummary, JSNum(7)),
      JsonResponse(200, "result", JSStr(EmptyStr), JSStr(Str(<<"h","i","g","h">>, 0))) }

\* what the procedure model may generate (line 198)
GeneratedTexts ==
    { <<>>,
      <<PromptTok, TagTok, NL, StepTok(1), Txt("a"), NL, StepTok(2), Txt("b"), NL,
        StepTok(3), Txt("c"), NL>>,
      <<StepTok(1), Txt("a"), StepTok(2), Txt("b")>>,
      <<Txt("x"), NL, Txt("y"), NL, Txt("z")>> }

VARIABLES fu_pc, fu_desc, fu_result,
          ar_pc, ar_body, ar_called, ar_remote, ar_resp,
          pc, form, user, pythonResults, imageAnalysisData,
          finalProcessedRequest, urgencyLevel, procedureText, translatedSteps,
          inFlight, tagalogProcedure, formattedProcedure, uploadedUrls,
          maintenance, resourceIndex, response,
          maintenanceTable, resourceTable, documentationTable, messagesTable,
          calls, log

\* formatProcedureMessage on its own: its arguments and two results
VARIABLES fm_pc, fm_in, fm_first, fm_second

fmVars == <<fm_pc, fm_in, fm_first, fm_second>>

\* the maintenance GET route: its request and its answer
VARIABLES get_pc, get_req, get_resp

getVars == <<get_pc, get_req, get_resp>>

\* the message routes: the last request served and its answer
VARIABLES msg_op

\* the event streams of messages/events/route.ts: the streams opened so far,
\* the client set, and what was enqueued on each stream
VARIABLES sse

\* the chat page of BillingSlip.tsx with the store and the requests in flight
VARIABLES chat

\* the WebSocketService of components/index.ts and its sockets
VARIABLES ws

\* the submit-request form of part_007: its images and their analyses
VARIABLES rf

\* the state of the components outside the POST routes
auxVars == <<fmVars, getVars, msg_op, sse, chat, ws, rf>>

fuVars == <<fu_pc, fu_desc, fu_result>>

arVars == <<ar_pc, ar_body, ar_called, ar_remote, ar_resp>>

dbVars == <<maintenanceTable, resourceTable, documentationTable, messagesTable>>

\* lines 218-238: the array that Promise.all fills, and the translation calls
\* that have not settled yet
trVars == <<translatedSteps, inFlight>>

localVars ==
    <<user, pythonResults, imageAnalysisData, finalProcessedRequest, urgencyLevel,
      procedureText, trVars, tagalogProcedure, formattedProcedure, uploadedUrls,
      maintenance, resourceIndex>>

postVars == <<pc, form, localVars, response, dbVars, calls, log>>

vars == <<fuVars, arVars, postVars, auxVars>>

\* what the steps of one component leave alone
fmRest == <<fuVars, arVars, postVars, getVars, msg_op, sse, chat, ws, rf>>

getRest == <<fuVars, arVars, postVars, fmVars, msg_op, sse, chat, ws, rf>>

msgRest ==
    <<fuVars, arVars, pc, form, localVars, response, maintenanceTable,
      resourceTable, documentationTable, calls, log, fmVars, getVars, sse, chat, ws, rf>>

(***************************************************************************)
(* The classifier and the analyze-request route on their own.              *)
(***************************************************************************)
FuIdle == fu_pc = "idle" /\ fu_desc = EmptyStr /\ fu_result = 0

FuInit == fu_pc = "call" /\ fu_desc \in Descriptions /\ fu_result = 0

Classify ==
    /\ fu_pc = "call"
    /\ fu_result' = determineFallbackUrgency(fu_desc)
    /\ fu_pc' = "returned"
    /\ UNCHANGED <<fu_desc, arVars, postVars, auxVars>>

NoBody == Body(JSUndef, JSUndef, JSUndef, JSUndef, JSUndef, JSUndef)

ArIdle ==
    /\ ar_pc = "idle"
    /\ ar_body = NoBody
    /\ ar_called = FALSE
    /\ ar_remote = RemoteThrow
    /\ ar_resp = Unhandled

ArInit ==
    /\ ar_pc = "request"
    /\ ar_body \in RequestBodies
    /\ ar_called = FALSE
    /\ ar_remote = RemoteThrow
    /\ ar_resp = Unhandled

\* part_000, lines 9-23: the Python service is called when content was provided
AnalyzeRequestCallsRemote(body) ==
    Truthy(body.userText) \/ Truthy(body.imageDescriptions)

\* one request to the analyze-request route
AnalyzeRequest ==
    /\ ar_pc = "request"
    /\ \E remote \in RemoteOutcomes :
          /\ ar_called' = AnalyzeRequestCallsRemote(ar_body)
          /\ ar_remote' = IF ar_called' THEN remote ELSE ar_remote
          /\ ar_resp' = AnalyzeRequestPOST(ar_body, remote)
    /\ ar_pc' = "responded"
    /\ UNCHANGED <<ar_body, fuVars, auxVars, postVars>>

(***************************************************************************)
(* The maintenance POST route, one request.                                *)
(***************************************************************************)
NoCalls == [analysis |-> 0, summarization |-> 0, procedure |-> 0,
            translation |-> 0, upload |-> 0, training |-> 0]

NoLog == [analysis |-> "none", summarization |-> "none", procedure |-> "none",
          translationFailed |-> {}, translationOvertook |-> FALSE,
          upload |-> "none", persistence |-> "none",
          message |-> "none"]

NoResponse ==
    [ status |-> 0, message |-> "", maintenanceId |-> 0, summary |-> JSUndef,
      urgency |-> JSUndef, uploadedUrls |-> <<>>, translatedToTagalog |-> FALSE,
      aiAnalysisUsed |-> FALSE ]

ErrorResponse(status, message) ==
    [NoResponse EXCEPT !.status = status, !.message = message]

NoProcedureMessage ==
    [ title |-> EmptyStr, languageNote |-> "", urgency |-> JSUndef,
      urgencyText |-> "", summary |-> JSUndef, procedure |-> <<>>, noteText |-> "" ]

\* rows that other requests wrote earlier
EarlierTicket ==
    [ maintenanceId |-> 1, title |-> Title5, userId |-> 4, propertyId |-> 8,
      rawRequest |-> Leak10, processedRequest |-> JSStr(Leak10),
      urgency |-> "High", status |-> "scheduled" ]

EarlierResource ==
    [ referenceId |-> 1, referenceType |-> "Maintenance",
      url |-> UploadedUrl(8, "old.jpg"), fileName |-> "old.jpg" ]

PostIdle ==
    /\ pc = "idle"
    /\ form = Form("", EmptyStr, EmptyStr, "", <<>>, FALSE, "absent")
    /\ user = 0 /\ pythonResults = "null" /\ imageAnalysisData = "null"
    /\ finalProcessedRequest = JSUndef /\ urgencyLevel = JSUndef
    /\ procedureText = <<>> /\ tagalogProcedure = <<>>
    /\ translatedSteps = <<>> /\ inFlight = {}
    /\ formattedProcedure = NoProcedureMessage
    /\ uploadedUrls = <<>> /\ maintenance = 0 /\ resourceIndex = 0
    /\ response = NoResponse
    /\ maintenanceTable = <<>> /\ resourceTable = <<>>
    /\ documentationTable = <<>> /\ messagesTable = <<>>
    /\ calls = NoCalls /\ log = NoLog

PostInit ==
    /\ pc = "auth"
    /\ form \in Forms
    /\ user = 0 /\ pythonResults = "null" /\ imageAnalysisData = "null"
    /\ finalProcessedRequest = JSUndef /\ urgencyLevel = JSUndef
    /\ procedureText = <<>> /\ tagalogProcedure = <<>>
    /\ translatedSteps = <<>> /\ inFlight = {}
    /\ formattedProcedure = NoProcedureMessage
    /\ uploadedUrls = <<>> /\ maintenance = 0 /\ resourceIndex = 0
    /\ response = NoResponse
    /\ maintenanceTable = <<EarlierTicket>> /\ resourceTable = <<EarlierResource>>
    /\ documentationTable = <<>> /\ messagesTable = <<>>
    /\ calls = NoCalls /\ log = NoLog

\* lines 396-402: the outer catch
Abort(cause) ==
    /\ response' = ErrorResponse(500, "Internal server error")
    /\ log' = [log EXCEPT !.persistence = cause]
    /\ pc' = "done"

\* lines 17-21
Authenticate ==
    /\ pc = "auth"
    /\ IF form.session = ""
       THEN /\ response' = ErrorResponse(401, "Unauthorized")
            /\ pc' = "done"
       ELSE /\ pc' = "validate"
            /\ UNCHANGED response
    /\ UNCHANGED <<form, localVars, dbVars, calls, log, fuVars, auxVars, arVars>>

\* the validation run only after the images were sent for analysis
ValidateInputsAfterAnalysis ==
    /\ pc = "validate"
    /\ calls' = [calls EXCEPT !.analysis = @ + 1]
    /\ IF ValidationError(form) # ""
       THEN /\ response' = ErrorResponse(400, ValidationError(form))
            /\ pc' = "done"
       ELSE /\ pc' = "property"
            /\ UNCHANGED response
    /\ UNCHANGED <<form, localVars, dbVars, log, fuVars, auxVars, arVars>>

\* lines 42-63
ValidateInputs ==
    /\ pc = "validate"
    /\ IF ValidationError(form) # ""
       THEN /\ response' = ErrorResponse(400, ValidationError(form))
            /\ pc' = "done"
       ELSE /\ pc' = "property"
            /\ UNCHANGED response
    /\ UNCHANGED <<form, localVars, dbVars, calls, log, fuVars, auxVars, arVars>>

\* lines 65-73
VerifyProperty ==
    /\ pc = "property"
    /\ LET id == ParseInt(form.userId)
       IN  IF id = 0
           THEN /\ Abort("findUnique")
                /\ UNCHANGED user
           ELSE IF id \notin DOMAIN UsersTable \/ UsersTable[id] = 0
           THEN /\ response' = ErrorResponse(400, "User property not found.")
                /\ pc' = "done"
                /\ UNCHANGED <<user, log>>
           ELSE /\ user' = UsersTable[id]
                /\ pc' = "analyze"
                /\ UNCHANGED <<response, log>>
    /\ UNCHANGED <<form, pythonResults, imageAnalysisData, finalProcessedRequest,
                   urgencyLevel, procedureText, tagalogProcedure, trVars, formattedProcedure,
                   uploadedUrls, maintenance, resourceIndex, dbVars, calls,
                   fuVars, auxVars, arVars>>

\* lines 84-118
AnalyzeImages ==
    /\ pc = "analyze"
    /\ \E outcome \in AnalysisOutcomes :
          /\ pythonResults' =
                CASE outcome \in {"results", "unreadable"} -> "results"
                  [] outcome = "no results" -> "empty"
                  [] OTHER -> "null"
          /\ imageAnalysisData' = IF outcome = "results" THEN "data" ELSE "null"
          /\ log' = [log EXCEPT !.analysis =
                        CASE outcome \in {"throw", "not ok"} -> "failed"
                          [] outcome = "unreadable" -> "unreadable"
                          [] OTHER -> "ok"]
    /\ calls' = [calls EXCEPT !.analysis = @ + 1]
    /\ pc' = "summarize"
    /\ UNCHANGED <<form, user, finalProcessedRequest, urgencyLevel, procedureText,
                   tagalogProcedure, trVars, formattedProcedure, uploadedUrls, maintenance,
                   resourceIndex, response, dbVars, fuVars, auxVars, arVars>>

\* lines 128-133: the request the orchestrator sends
SummarizationData ==
    Body(JSUndef, JSUndef, JSStr(form.title), JSStr(form.rawRequest),
         JSObj(imageAnalysisData), JSObj(form.aiAnalysis))

\* the failure branch keeps the default of line 121, the untruncated text
SummarizeWithoutTruncation(resp) ==
    IF resp.status = 200
    THEN /\ finalProcessedRequest' = OrElse(resp.summary, JSStr(form.rawRequest))
         /\ urgencyLevel' = OrElse(resp.urgencyLevel, JSNum(DefaultUrgency))
         /\ log' = [log EXCEPT !.summarization = "ok"]
    ELSE /\ finalProcessedRequest' = JSStr(form.rawRequest)
         /\ urgencyLevel' = JSNum(DefaultUrgency)
         /\ log' = [log EXCEPT !.summarization = "failed"]

\* lines 143-161, for the answer resp of the summarization call
SummarizeWith(resp) ==
    IF resp.status = 200
    THEN /\ finalProcessedRequest' = OrElse(resp.summary, JSStr(form.rawRequest))
         /\ urgencyLevel' = OrElse(resp.urgencyLevel, JSNum(DefaultUrgency))
         /\ log' = [log EXCEPT !.summarization = "ok"]
    ELSE /\ finalProcessedRequest' = JSStr(Truncated(form.rawRequest))
         /\ urgencyLevel' = JSNum(DefaultUrgency)
         /\ log' = [log EXCEPT !.summarization = "failed"]

\* lines 120-161 for the answer resp; JSON.parse of a malformed aiAnalysis
\* throws before the call is made
SummarizeStep(resp) ==
    /\ pc = "summarize"
    /\ IF form.aiAnalysis = "malformed"
       THEN /\ finalProcessedRequest' = JSStr(Truncated(form.rawRequest))
            /\ urgencyLevel' = JSNum(DefaultUrgency)
            /\ log' = [log EXCEPT !.summarization = "not sent"]
            /\ UNCHANGED calls
       ELSE /\ SummarizeWith(resp)
            /\ calls' = [calls EXCEPT !.summarization = @ + 1]
    /\ pc' = "procedure"
    /\ UNCHANGED <<form, user, pythonResults, imageAnalysisData, procedureText,
                   tagalogProcedure, trVars, formattedProcedure, uploadedUrls, maintenance,
                   resourceIndex, response, dbVars, fuVars, auxVars>>

\* the summarization call answered by whatever serves baseUrl
Summarize ==
    /\ \E resp \in SummarizationResponses : SummarizeStep(resp)
    /\ UNCHANGED arVars

FetchThrows == JsonResponse(0, "throw", JSUndef, JSUndef)

\* the summarization call answered by the analyze-request route of part_000,
\* or not answered at all
SummarizeEndToEnd ==
    \/ /\ SummarizeStep(FetchThrows)
       /\ UNCHANGED arVars
    \/ \E remote \in RemoteOutcomes :
          /\ SummarizeStep(AnalyzeRequestPOST(SummarizationData, remote))
          /\ IF form.aiAnalysis = "malformed"
             THEN UNCHANGED arVars
             ELSE /\ ar_pc' = "responded"
                  /\ ar_body' = SummarizationData
                  /\ ar_called' = AnalyzeRequestCallsRemote(SummarizationData)
                  /\ ar_remote' = IF ar_called' THEN remote ELSE ar_remote
                  /\ ar_resp' = AnalyzeRequestPOST(SummarizationData, remote)

\* lines 166-185: what the prompt is built from
ProcedurePrompt ==
    [ title |-> form.title, rawRequest |-> form.rawRequest,
      summary |-> finalProcessedRequest, urgency |-> urgencyLevel,
      components |-> IF imageAnalysisData # "null" THEN "listed" ELSE "" ]

\* lines 163-209
GenerateProcedure ==
    /\ pc = "procedure"
    /\ \/ /\ procedureText' = CatchProcedure(finalProcessedRequest)
          /\ log' = [log EXCEPT !.procedure = "failed"]
       \/ /\ \E generated \in GeneratedTexts :
                procedureText' = CleanProcedure(generated)
          /\ log' = [log EXCEPT !.procedure = "ok"]
    /\ calls' = [calls EXCEPT !.procedure = @ + 1]
    /\ pc' = "translate"
    /\ UNCHANGED <<form, user, pythonResults, imageAnalysisData,
                   finalProcessedRequest, urgencyLevel, tagalogProcedure, trVars,
                   formattedProcedure, uploadedUrls, maintenance, resourceIndex,
                   response, dbVars, fuVars, auxVars, arVars>>

\* the flag of the form decides whether any translation call is made
TranslationAlways == TRUE

\* line 213
TranslationRequested == form.translateToTagalog

\* lines 252-258
FormatProcedure(procedure) ==
    formatProcedureMessage(form.title, procedure, finalProcessedRequest,
                           urgencyLevel, form.translateToTagalog)

\* lines 211-218 and 252-258: with the flag set, one translation call per
\* step is issued and the handler waits for all of them; without it the
\* generated text is formatted as it is
Translate ==
    /\ pc = "translate"
    /\ IF TranslationRequested
       THEN /\ translatedSteps' = [i \in 1..Len(StepLines(procedureText)) |-> Unsettled]
            /\ inFlight' = 1..Len(StepLines(procedureText))
            /\ calls' = [calls EXCEPT !.translation = @ + Len(StepLines(procedureText))]
            /\ pc' = "translating"
            /\ UNCHANGED <<tagalogProcedure, formattedProcedure>>
       ELSE /\ tagalogProcedure' = <<>>
            /\ formattedProcedure' = FormatProcedure(procedureText)
            /\ pc' = "upload"
            /\ UNCHANGED <<trVars, calls>>
    /\ UNCHANGED <<form, user, pythonResults, imageAnalysisData,
                   finalProcessedRequest, urgencyLevel, procedureText,
                   uploadedUrls, maintenance, resourceIndex, response, dbVars,
                   log, fuVars, auxVars, arVars>>

\* a failed translation call that is issued once more
TranslationSettlesWithRetry ==
    /\ pc = "translating"
    /\ \E i \in inFlight, outcome \in {"translated", "failed"} :
          IF outcome = "failed" /\ calls.translation = Len(translatedSteps)
          THEN /\ calls' = [calls EXCEPT !.translation = @ + 1]
               /\ UNCHANGED <<trVars, log>>
          ELSE /\ translatedSteps' =
                     SettleStep(translatedSteps, i,
                         TranslationResult(StepContent(StepLines(procedureText)[i]), outcome))
               /\ inFlight' = inFlight \ {i}
               /\ log' = [log EXCEPT
                             !.translationFailed =
                                 IF outcome = "failed" THEN @ \cup {i} ELSE @,
                             !.translationOvertook =
                                 @ \/ \E h \in inFlight : h < i]
               /\ UNCHANGED calls
    /\ UNCHANGED <<pc, form, user, pythonResults, imageAnalysisData,
                   finalProcessedRequest, urgencyLevel, procedureText,
                   tagalogProcedure, formattedProcedure, uploadedUrls,
                   maintenance, resourceIndex, response, dbVars, fuVars, auxVars, arVars>>

\* lines 219-236: one of the pending calls settles, in any order
TranslationSettles ==
    /\ pc = "translating"
    /\ \E i \in inFlight, outcome \in {"translated", "failed"} :
          /\ translatedSteps' =
                SettleStep(translatedSteps, i,
                    TranslationResult(StepContent(StepLines(procedureText)[i]), outcome))
          /\ inFlight' = inFlight \ {i}
          /\ log' = [log EXCEPT
                        !.translationFailed =
                            IF outcome = "failed" THEN @ \cup {i} ELSE @,
                        !.translationOvertook =
                            @ \/ \E h \in inFlight : h < i]
    /\ UNCHANGED <<pc, form, user, pythonResults, imageAnalysisData,
                   finalProcessedRequest, urgencyLevel, procedureText,
                   tagalogProcedure, formattedProcedure, uploadedUrls,
                   maintenance, resourceIndex, response, dbVars, calls,
                   fuVars, auxVars, arVars>>

\* lines 240-258: every call has settled; the steps are put together again
\* and the message is formatted
AssembleTranslation ==
    /\ pc = "translating"
    /\ inFlight = {}
    /\ tagalogProcedure' = AssembleSteps(StepLines(procedureText), translatedSteps)
    /\ formattedProcedure' = FormatProcedure(tagalogProcedure')
    /\ pc' = "upload"
    /\ UNCHANGED <<form, user, pythonResults, imageAnalysisData,
                   finalProcessedRequest, urgencyLevel, procedureText, trVars,
                   uploadedUrls, maintenance, resourceIndex, response, dbVars,
                   calls, log, fuVars, auxVars, arVars>>

\* lines 260-291: the call throws, or the upload-images route answers
UploadImages ==
    /\ pc = "upload"
    /\ \/ /\ uploadedUrls' = <<UploadUnavailable>>
          /\ log' = [log EXCEPT !.upload = "failed"]
       \/ \E failAt \in 0..Len(form.images) :
             LET githubRes == UploadImagesPOST(EncodedImages(form.images), user, failAt)
             IN  /\ uploadedUrls' = UrlsOfUpload(githubRes)
                 /\ log' = [log EXCEPT !.upload =
                               IF githubRes.success THEN "ok" ELSE "failed"]
    /\ calls' = [calls EXCEPT !.upload = @ + 1]
    /\ pc' = "ticket"
    /\ UNCHANGED <<form, user, pythonResults, imageAnalysisData,
                   finalProcessedRequest, urgencyLevel, procedureText,
                   tagalogProcedure, trVars, formattedProcedure, maintenance, resourceIndex,
                   response, dbVars, fuVars, auxVars, arVars>>

\* lines 293-305: prisma.maintenance.create succeeds or throws
CreateMaintenance ==
    /\ pc = "ticket"
    /\ \/ /\ maintenance' = Len(maintenanceTable) + 1
          /\ maintenanceTable' = Append(maintenanceTable,
                [ maintenanceId |-> Len(maintenanceTable) + 1,
                  title |-> form.title,
                  userId |-> ParseInt(form.userId),
                  propertyId |-> user,
                  rawRequest |-> form.rawRequest,
                  processedRequest |-> finalProcessedRequest,
                  urgency |-> getUrgencyText(urgencyLevel),
                  status |-> "pending" ])
          /\ resourceIndex' = 1
          /\ pc' = "resources"
          /\ UNCHANGED <<response, log>>
       \/ /\ Abort("maintenance")
          /\ UNCHANGED <<maintenance, maintenanceTable, resourceIndex>>
    /\ UNCHANGED <<form, user, pythonResults, imageAnalysisData,
                   finalProcessedRequest, urgencyLevel, procedureText,
                   tagalogProcedure, trVars, formattedProcedure, uploadedUrls,
                   resourceTable, documentationTable, messagesTable, calls,
                   fuVars, auxVars, arVars>>

\* a Resource row that names the ticket after the one just created
ResourceRowOfNextTicket(url) ==
    [ referenceId |-> maintenance + 1, referenceType |-> "Maintenance",
      url |-> url, fileName |-> FileNameOf(url) ]

\* lines 310-315
ResourceRow(url) ==
    [ referenceId |-> maintenance, referenceType |-> "Maintenance",
      url |-> url, fileName |-> FileNameOf(url) ]

\* lines 307-317: one pass of the loop; prisma.resource.create succeeds or throws
CreateResource ==
    /\ pc = "resources"
    /\ resourceIndex <= Len(uploadedUrls)
    /\ \/ /\ resourceTable' = Append(resourceTable, ResourceRow(uploadedUrls[resourceIndex]))
          /\ resourceIndex' = resourceIndex + 1
          /\ UNCHANGED <<pc, response, log>>
       \/ /\ Abort("resource")
          /\ UNCHANGED <<resourceTable, resourceIndex>>
    /\ UNCHANGED <<form, user, pythonResults, imageAnalysisData,
                   finalProcessedRequest, urgencyLevel, procedureText,
                   tagalogProcedure, trVars, formattedProcedure, uploadedUrls, maintenance,
                   maintenanceTable, documentationTable, messagesTable, calls,
                   fuVars, auxVars, arVars>>

\* lines 320-332
DocumentationData ==
    [ uploadedFiles |-> uploadedUrls,
      originalFilenames |-> [i \in 1..Len(form.images) |-> form.images[i].name],
      userDescription |-> form.rawRequest,
      processedRequest |-> finalProcessedRequest,
      urgencyLevel |-> urgencyLevel,
      procedureGenerated |-> formattedProcedure,
      translatedToTagalog |-> form.translateToTagalog,
      imageAnalysis |-> pythonResults,
      frontendAiAnalysis |-> form.aiAnalysis,
      summarizationUsed |-> TRUE ]

\* lines 319-364: JSON.parse of a malformed aiAnalysis throws;
\* prisma.documentation.create succeeds or throws; then the training
\* feedback is sent without waiting, when the deployment enables it
CreateDocumentation ==
    /\ pc = "resources"
    /\ resourceIndex > Len(uploadedUrls)
    /\ IF form.aiAnalysis = "malformed"
       THEN /\ Abort("aiAnalysis")
            /\ UNCHANGED <<documentationTable, calls>>
       ELSE \/ /\ documentationTable' = Append(documentationTable,
                     [ maintenanceID |-> maintenance,
                       documentation |-> DocumentationData ])
               /\ \E enableAiTraining \in BOOLEAN :
                     calls' = IF pythonResults # "null" /\ enableAiTraining
                              THEN [calls EXCEPT !.training = @ + 1]
                              ELSE calls
               /\ pc' = "notify"
               /\ UNCHANGED <<response, log>>
            \/ /\ Abort("documentation")
               /\ UNCHANGED <<documentationTable, calls>>
    /\ UNCHANGED <<form, localVars, maintenanceTable, resourceTable, messagesTable,
                   fuVars, auxVars, arVars>>

\* an answer that always reports the image analysis as used
SuccessResponseAnalysisUsed ==
    [ status |-> 201,
      message |-> "Maintenance request submitted successfully",
      maintenanceId |-> maintenance,
      summary |-> finalProcessedRequest,
      urgency |-> urgencyLevel,
      uploadedUrls |-> uploadedUrls,
      translatedToTagalog |-> form.translateToTagalog,
      aiAnalysisUsed |-> TRUE ]

\* lines 381-395
SuccessResponse ==
    [ status |-> 201,
      message |-> "Maintenance request submitted successfully",
      maintenanceId |-> maintenance,
      summary |-> finalProcessedRequest,
      urgency |-> urgencyLevel,
      uploadedUrls |-> uploadedUrls,
      translatedToTagalog |-> form.translateToTagalog,
      aiAnalysisUsed |-> pythonResults # "null" ]

\* lines 368-376: the row of the notification
NotificationRow(userId, text) ==
    [ senderID |-> ParseInt(userId), receiverID |-> LandlordId,
      message |-> text, read |-> FALSE ]

\* a failed notification write that reaches the outer catch
SendMessageFailureAborts ==
    /\ pc = "notify"
    /\ \/ /\ messagesTable' = Append(messagesTable,
                NotificationRow(form.userId, formattedProcedure))
          /\ log' = [log EXCEPT !.message = "ok"]
          /\ response' = SuccessResponse
       \/ /\ log' = [log EXCEPT !.message = "failed"]
          /\ response' = ErrorResponse(500, "Internal server error")
          /\ UNCHANGED messagesTable
    /\ pc' = "done"
    /\ UNCHANGED <<form, localVars, maintenanceTable, resourceTable,
                   documentationTable, calls, fuVars, auxVars, arVars>>

\* lines 366-395: prisma.messages.create succeeds or throws; then the answer
SendMessage ==
    /\ pc = "notify"
    /\ \/ /\ messagesTable' = Append(messagesTable,
                NotificationRow(form.userId, formattedProcedure))
          /\ log' = [log EXCEPT !.message = "ok"]
       \/ /\ log' = [log EXCEPT !.message = "failed"]
          /\ UNCHANGED messagesTable
    /\ response' = SuccessResponse
    /\ pc' = "done"
    /\ UNCHANGED <<form, localVars, maintenanceTable, resourceTable,
                   documentationTable, calls, fuVars, auxVars, arVars>>

(***************************************************************************)
(* formatProcedureMessage on its own.  Here the summary is a text of       *)
(* tokens, so that the message can be read as the string it is and be      *)
(* handed to the formatter again.                                          *)
(***************************************************************************)
JSText(toks) == [t |-> "text", toks |-> toks]

RECURSIVE Interpolated(_)
\* the string of a template: "${summary}" replaced by the summary's text
Interpolated(toks) ==
    IF toks = <<>> THEN <<>>
    ELSE IF Head(toks).k = "txt" /\ Head(toks).arg # JSUndef
         THEN <<Txt(Head(toks).id)>> \o Head(toks).arg.toks \o <<Txt("\"")>>
                 \o Interpolated(Tail(toks))
         ELSE <<Head(toks)>> \o Interpolated(Tail(toks))

\* the message as the string that line 434 returns
MessageText(message) ==
    [message EXCEPT !.procedure = Interpolated(message.procedure)]

\* summaries: one line, two lines, two paragraphs, a text that quotes a step
SummaryTexts ==
    { <<Txt("s")>>,
      <<Txt("s"), NL, Txt("t")>>,
      <<Txt("s"), NL, NL, Txt("t")>>,
      <<Txt("s"), StepTok(2), Txt("t")>> }

\* procedure texts handed to the formatter
FormatterInputs ==
    { <<>>,
      <<Txt("x")>>,
      <<Txt("x"), NL, Txt("y")>>,
      <<StepTok(1), Txt("a"), StepTok(2), Txt("b")>>,
      <<StepTok(1), Txt("a"), NL, StepTok(2), Txt("b"), NL, StepTok(3), Txt("c")>>,
      <<Txt("x"), NL, Txt("y"), NL, Txt("z")>> }

NoFormatterInput ==
    [ title |-> EmptyStr, procedure |-> <<>>, summary |-> JSText(<<>>),
      urgency |-> JSUndef, isTagalog |-> FALSE ]

FmIdle ==
    /\ fm_pc = "idle" /\ fm_in = NoFormatterInput
    /\ fm_first = NoProcedureMessage /\ fm_second = NoProcedureMessage

FmInit ==
    /\ fm_pc = "call"
    /\ fm_in \in [ title : {Title5}, procedure : FormatterInputs,
                    summary : { JSText(t) : t \in SummaryTexts },
                    urgency : {JSNum(1), JSNum(4)}, isTagalog : BOOLEAN ]
    /\ fm_first = NoProcedureMessage /\ fm_second = NoProcedureMessage

\* lines 407-435, applied to the input
Format ==
    /\ fm_pc = "call"
    /\ fm_first' = MessageText(formatProcedureMessage(fm_in.title, fm_in.procedure,
                        fm_in.summary, fm_in.urgency, fm_in.isTagalog))
    /\ fm_pc' = "formatted"
    /\ UNCHANGED <<fm_in, fm_second, fmRest>>

\* lines 407-435, applied to the procedure of the first message
FormatAgain ==
    /\ fm_pc = "formatted"
    /\ fm_second' = MessageText(formatProcedureMessage(fm_in.title, fm_first.procedure,
                         fm_in.summary, fm_in.urgency, fm_in.isTagalog))
    /\ fm_pc' = "again"
    /\ UNCHANGED <<fm_in, fm_first, fmRest>>

(***************************************************************************)
(* The maintenance GET route (part_001, 471-500).  The tables keep their   *)
(* rows in the order of creation, which is the order of dateIssued.        *)
(***************************************************************************)
GetRequest(session, userId) == [session |-> session, userId |-> userId]

GetRequests ==
    { GetRequest("1", "1"), GetRequest("4", "4"), GetRequest("1", "4"),
      GetRequest("4", "1"), GetRequest("", "1"), GetRequest("1", ""),
      GetRequest("1", "abc") }

RECURSIVE Reverse(_)
Reverse(rows) ==
    IF rows = <<>> THEN <<>> ELSE Reverse(Tail(rows)) \o <<Head(rows)>>

\* lines 485-492: a ticket with the relations that the query includes
WithIncluded(row) ==
    [ maintenance |-> row,
      included |->
        [ relation \in {"property", "documentations", "availabilities"} |->
            CASE relation = "property" -> <<row.propertyId>>
              [] relation = "documentations" ->
                    SelectSeq(documentationTable,
                              LAMBDA d : d.maintenanceID = row.maintenanceId)
              [] OTHER -> <<>> ] ]

\* lines 484-493: findMany where userId, newest first
FindMany(userId) ==
    LET found == SelectSeq(maintenanceTable, LAMBDA row : row.userId = userId)
    IN  Reverse([i \in 1..Len(found) |-> WithIncluded(found[i])])

GetAnswer(status, message, rows) ==
    [status |-> status, message |-> message, maintenanceRequests |-> rows]

NoGetAnswer == GetAnswer(0, "", <<>>)

\* lines 471-500; failed: the query throws
MaintenanceGET(req, failed) ==
    IF req.session = "" THEN GetAnswer(401, "Unauthorized", <<>>)
    ELSE IF req.userId = "" \/ ParseInt(req.userId) = 0
            \/ ParseInt(req.userId) # ParseInt(req.session)
    THEN GetAnswer(400, "Invalid user ID", <<>>)
    ELSE IF failed THEN GetAnswer(500, "Internal server error", <<>>)
    ELSE GetAnswer(200, "", FindMany(ParseInt(req.userId)))

GetIdle == get_pc = "idle" /\ get_req = GetRequest("", "") /\ get_resp = NoGetAnswer

\* a GET request is served once the submission has been answered
GetMaintenance ==
    /\ get_pc = "idle"
    /\ pc = "done"
    /\ \E req \in GetRequests, failed \in BOOLEAN :
          /\ get_req' = req
          /\ get_resp' = MaintenanceGET(req, failed)
    /\ get_pc' = "responded"
    /\ UNCHANGED getRest

(***************************************************************************)
(* The message routes: POST /api/messages (messages/route.ts, 108-174),    *)
(* the mark-read route (messages/events/route.ts, 136-174) and the         *)
(* notification of the maintenance route, all on the Messages table.       *)
(***************************************************************************)
MaxMessages == 2

MsgSessions == {"", "1", "2"}

\* the bodies of POST /api/messages
MessageBody(receiverID, message, fileUrl, fileName) ==
    [ receiverID |-> receiverID, message |-> message,
      fileUrl |-> fileUrl, fileName |-> fileName ]

MessageBodies ==
    { MessageBody("1", "hi", "", ""), MessageBody("2", "hi", "", ""),
      MessageBody("2", "", "u", "f"), MessageBody("", "hi", "", ""),
      MessageBody("1", "", "", ""), MessageBody("1", "hi", "u", "") }

MsgOp(kind, session, partner, status) ==
    [kind |-> kind, session |-> session, partner |-> partner, status |-> status]

MsgIdle == msg_op = MsgOp("none", "", "", 0)

\* messages/route.ts, lines 134-146: the row of a chat message
ChatRow(session, body) ==
    [ senderID |-> ParseInt(session), receiverID |-> ParseInt(body.receiverID),
      message |-> body.message, fileUrl |-> body.fileUrl,
      fileName |-> body.fileName, read |-> FALSE ]

\* messages/route.ts, lines 108-174
PostMessage ==
    /\ Len(messagesTable) < MaxMessages
    /\ \E session \in MsgSessions, body \in MessageBodies, failed \in BOOLEAN :
          IF session = ""
          THEN /\ msg_op' = MsgOp("send", session, "", 401)
               /\ UNCHANGED messagesTable
          ELSE IF body.receiverID = "" \/ (body.message = "" /\ body.fileUrl = "")
                  \/ (body.fileUrl # "" /\ body.fileName = "")
          THEN /\ msg_op' = MsgOp("send", session, "", 400)
               /\ UNCHANGED messagesTable
          ELSE IF failed
          THEN /\ msg_op' = MsgOp("send", session, "", 500)
               /\ UNCHANGED messagesTable
          ELSE /\ msg_op' = MsgOp("send", session, "", 200)
               /\ messagesTable' = Append(messagesTable, ChatRow(session, body))
    /\ UNCHANGED msgRest

\* part_001, lines 366-379: the notification of a submission of tenant 1
NotifyLandlord ==
    /\ Len(messagesTable) < MaxMessages
    /\ \/ messagesTable' = Append(messagesTable, NotificationRow("1", NoProcedureMessage))
       \/ UNCHANGED messagesTable
    /\ msg_op' = MsgOp("notify", "", "", 201)
    /\ UNCHANGED msgRest

\* an update that marks every unread message of the partner, whoever received it
MarkedReadForAnyReceiver(table, session, userId) ==
    [ i \in 1..Len(table) |->
        IF table[i].senderID = ParseInt(userId) /\ ~table[i].read
        THEN [table[i] EXCEPT !.read = TRUE]
        ELSE table[i] ]

\* messages/events/route.ts, lines 155-164: updateMany
MarkedRead(table, session, userId) ==
    [ i \in 1..Len(table) |->
        IF /\ table[i].senderID = ParseInt(userId)
           /\ table[i].receiverID = ParseInt(session)
           /\ ~table[i].read
        THEN [table[i] EXCEPT !.read = TRUE]
        ELSE table[i] ]

\* messages/events/route.ts, lines 136-174
MarkRead ==
    \E session \in MsgSessions, userId \in {"", "1", "2", "abc"}, failed \in BOOLEAN :
       /\ IF session = ""
          THEN /\ msg_op' = MsgOp("markRead", session, userId, 401)
               /\ UNCHANGED messagesTable
          ELSE IF userId = ""
          THEN /\ msg_op' = MsgOp("markRead", session, userId, 400)
               /\ UNCHANGED messagesTable
          ELSE IF failed \/ ParseInt(userId) = 0
          THEN /\ msg_op' = MsgOp("markRead", session, userId, 500)
               /\ UNCHANGED messagesTable
          ELSE /\ msg_op' = MsgOp("markRead", session, userId, 200)
               /\ messagesTable' = MarkedRead(messagesTable, session, userId)
       /\ UNCHANGED msgRest

(***************************************************************************)
(* The registry of event streams (messages/events/route.ts, 4-98).  A      *)
(* stream is the position of its connection in sse.streams.                *)
(***************************************************************************)
MaxStreams == 3

MaxBroadcasts == 2

SseUsers == {"1", "2"}

SseIdle ==
    sse = [streams |-> <<>>, clients |-> {}, enqueued |-> <<>>, due |-> <<>>,
           broadcasts |-> 0, status |-> 0]

sseRest == <<fuVars, arVars, postVars, fmVars, getVars, msg_op, chat, ws, rf>>

\* the stream is connected and neither aborted nor cancelled
IsOpen(id) == ~sse.streams[id].aborted /\ ~sse.streams[id].cancelled

\* lines 10-52: GET, with start() run by the constructor of the stream
Connect ==
    /\ Len(sse.streams) < MaxStreams
    /\ \E userId \in SseUsers \cup {""} :
          IF userId = ""
          THEN sse' = [sse EXCEPT !.status = 400]
          ELSE sse' = [sse EXCEPT
                  !.streams = Append(@, [userId |-> userId, aborted |-> FALSE,
                                         cancelled |-> FALSE]),
                  !.clients = @ \cup {Len(sse.streams) + 1},
                  !.enqueued = Append(@, <<"connected">>),
                  !.due = Append(@, <<"connected">>),
                  !.status = 200]
    /\ UNCHANGED sseRest

\* lines 48-51: the abort listener of the request
AbortStream ==
    /\ \E id \in 1..Len(sse.streams) :
          /\ ~sse.streams[id].aborted
          /\ sse' = [sse EXCEPT !.streams[id].aborted = TRUE,
                                 !.clients = @ \ {id}]
    /\ UNCHANGED sseRest

\* lines 53-60: every client of the user of the cancelled stream is deleted
AfterCancel(id) ==
    {c \in sse.clients : sse.streams[c].userId # sse.streams[id].userId}

\* lines 53-60: cancel()
Cancel ==
    /\ \E id \in 1..Len(sse.streams) :
          /\ ~sse.streams[id].cancelled
          /\ sse' = [sse EXCEPT !.streams[id].cancelled = TRUE,
                                 !.clients = AfterCancel(id)]
    /\ UNCHANGED sseRest

\* lines 76-98: broadcastToUser; send() of a closed stream swallows the error
Broadcast ==
    /\ sse.broadcasts < MaxBroadcasts
    /\ \E userId \in SseUsers :
          LET message == <<"to", userId, sse.broadcasts + 1>>
          IN  sse' = [sse EXCEPT
                  !.broadcasts = @ + 1,
                  !.enqueued = [id \in 1..Len(sse.streams) |->
                      IF id \in sse.clients /\ sse.streams[id].userId = userId
                         /\ IsOpen(id)
                      THEN Append(sse.enqueued[id], message)
                      ELSE sse.enqueued[id]],
                  !.due = [id \in 1..Len(sse.streams) |->
                      IF sse.streams[id].userId = userId /\ IsOpen(id)
                      THEN Append(sse.due[id], message)
                      ELSE sse.due[id]]]
    /\ UNCHANGED sseRest

(***************************************************************************)
(* The chat page (BillingSlip.tsx) and GET /api/messages/[partnerId].      *)
(* The stored messages of the conversation are 1..chat.stored in the order *)
(* of dateSent; an optimistic message has a negative id.                   *)
(***************************************************************************)
pageSize == 10

StoredAtStart == 11

MaxSends == 1

MaxInFlight == 2

chatRest == <<fuVars, arVars, postVars, fmVars, getVars, msg_op, sse, ws, rf>>

NoPost == [phase |-> "none", temp |-> 0, id |-> 0]

ChatIdle ==
    chat = [ conv |-> FALSE, info |-> FALSE, timers |-> 0, messages |-> <<>>,
             hasMore |-> TRUE, page |-> 1, isSending |-> FALSE,
             stored |-> StoredAtStart, sends |-> 0, fetches |-> <<>>,
             post |-> NoPost ]

Max(a, b) == IF a > b THEN a ELSE b

\* [partnerId]/route.ts, lines 97-151: a page, oldest first, and hasMore
PageOf(stored, pageNum) ==
    LET skip == (pageNum - 1) * pageSize
        last == stored - skip
        first == Max(last - pageSize + 1, 1)
    IN  [ messages |-> [k \in 1..Max(last - first + 1, 0) |-> first + k - 1],
          hasMore |-> stored > skip + pageSize ]

\* lines 199-201: fetchMessages up to the request
Fetch(pageNum, reset) ==
    [phase |-> "requested", pageNum |-> pageNum, reset |-> reset,
     data |-> <<>>, hasMore |-> FALSE]

\* lines 449-461: the poll effect, clean-up of the last run first
PollEffect(conv, info, timers) ==
    (IF timers > 0 THEN timers - 1 ELSE 0) + (IF conv /\ ~info THEN 1 ELSE 0)

WithoutAt(seq, i) == [k \in 1..(Len(seq) - 1) |-> IF k < i THEN seq[k] ELSE seq[k + 1]]

\* lines 132-140: the conversation is selected and its first page asked for
SelectConversation ==
    /\ ~chat.conv
    /\ chat' = [chat EXCEPT !.conv = TRUE,
                            !.timers = PollEffect(TRUE, chat.info, @),
                            !.fetches = Append(@, Fetch(1, TRUE))]
    /\ UNCHANGED chatRest

\* the MessageInfo panel is opened or closed
ToggleMessageInfo ==
    /\ chat.conv
    /\ chat' = [chat EXCEPT !.info = ~@,
                            !.timers = PollEffect(chat.conv, ~chat.info, @)]
    /\ UNCHANGED chatRest

\* lines 452-455: a tick of the poll timer
PollTick ==
    /\ chat.timers > 0
    /\ Len(chat.fetches) < MaxInFlight
    /\ chat' = [chat EXCEPT !.fetches = Append(@, Fetch(1, TRUE))]
    /\ UNCHANGED chatRest

\* lines 239-244: loadMoreMessages
LoadMore ==
    /\ chat.conv /\ chat.hasMore
    /\ Len(chat.fetches) < MaxInFlight
    /\ chat' = [chat EXCEPT !.fetches = Append(@, Fetch(chat.page + 1, FALSE))]
    /\ UNCHANGED chatRest

\* [partnerId]/route.ts, lines 27-151 and the catch: the server answers a fetch
ServeFetch ==
    /\ \E i \in 1..Len(chat.fetches), outcome \in {"ok", "500", "throw"} :
          /\ chat.fetches[i].phase = "requested"
          /\ chat' = [chat EXCEPT !.fetches[i] =
                 [ phase |-> outcome, pageNum |-> @.pageNum, reset |-> @.reset,
                   data |-> IF outcome = "ok"
                            THEN PageOf(chat.stored, @.pageNum).messages ELSE <<>>,
                   hasMore |-> outcome = "ok" /\ PageOf(chat.stored, @.pageNum).hasMore ]]
    /\ UNCHANGED chatRest

\* lines 203-236: the answer of a fetch reaches the page
DeliverFetch ==
    /\ \E i \in 1..Len(chat.fetches) :
          LET f == chat.fetches[i]
              rest == WithoutAt(chat.fetches, i)
          IN  /\ f.phase # "requested"
              /\ chat' =
                   IF f.phase = "ok" /\ f.reset
                   THEN [chat EXCEPT !.messages = f.data, !.hasMore = f.hasMore,
                                     !.page = 1, !.fetches = rest]
                   ELSE IF f.phase = "ok"
                   THEN [chat EXCEPT !.messages = f.data \o @, !.hasMore = f.hasMore,
                                     !.page = f.pageNum, !.fetches = rest]
                   ELSE IF f.phase = "throw"
                   THEN [chat EXCEPT !.messages = <<>>, !.fetches = rest]
                   ELSE [chat EXCEPT !.fetches = rest]
    /\ UNCHANGED chatRest

\* lines 261-323: sendMessage up to the POST; the changed conversation list
\* runs the effects of lines 132-140 and 449-461 again
Send ==
    /\ chat.conv /\ ~chat.isSending
    /\ chat.sends < MaxSends
    /\ Len(chat.fetches) < MaxInFlight
    /\ chat' = [chat EXCEPT
          !.isSending = TRUE, !.sends = @ + 1,
          !.messages = Append(@, -(chat.sends + 1)),
          !.post = [phase |-> "requested", temp |-> -(chat.sends + 1), id |-> 0],
          !.timers = PollEffect(chat.conv, chat.info, @),
          !.fetches = Append(@, Fetch(1, TRUE))]
    /\ UNCHANGED chatRest

\* messages/route.ts, lines 108-174: the server stores the message or fails
ServePost ==
    /\ chat.post.phase = "requested"
    /\ \/ chat' = [chat EXCEPT !.stored = @ + 1,
                                !.post = [@ EXCEPT !.phase = "ok", !.id = chat.stored + 1]]
       \/ chat' = [chat EXCEPT !.post = [@ EXCEPT !.phase = "failed"]]
    /\ UNCHANGED chatRest

\* lines 325-370: the answer of the POST reaches the page
DeliverPost ==
    /\ chat.post.phase \in {"ok", "failed"}
    /\ chat' = [chat EXCEPT
          !.messages = IF chat.post.phase = "ok"
                       THEN [k \in 1..Len(@) |->
                               IF @[k] = chat.post.temp THEN chat.post.id ELSE @[k]]
                       ELSE @,
          !.isSending = FALSE,
          !.post = NoPost]
    /\ UNCHANGED chatRest

(***************************************************************************)
(* WebSocketService (components/index.ts, 87-178).  ws.cur is the state of *)
(* this.socket; ws.orphans counts the sockets the service made and no      *)
(* longer refers to, whose handlers are still those of the service.        *)
(***************************************************************************)
maxReconnectAttempts == 5

MaxSockets == 7

MaxUserConnects == 2

wsRest == <<fuVars, arVars, postVars, fmVars, getVars, msg_op, sse, chat, rf>>

WsIdle ==
    ws = [ cur |-> "null",
           orphans |-> [connecting |-> 0, open |-> 0, closing |-> 0],
           reconnectAttempts |-> 0, timers |-> 0, created |-> 0,
           userConnects |-> 0, callbacks |-> FALSE, quiet |-> FALSE,
           event |-> "none", invoked |-> FALSE ]

\* lines 95-132: connect()
Connected(w) ==
    IF w.cur = "open"
    THEN w
    ELSE [w EXCEPT !.cur = "connecting",
                   !.created = @ + 1,
                   !.orphans.connecting = IF w.cur = "connecting" THEN @ + 1 ELSE @]

\* lines 134-142: attemptReconnect() up to the timer
AttemptReconnect(w) ==
    IF w.reconnectAttempts < maxReconnectAttempts
    THEN [w EXCEPT !.reconnectAttempts = @ + 1, !.timers = @ + 1]
    ELSE w

\* the user of the service calls connect()
UserConnect ==
    /\ ws.userConnects < MaxUserConnects
    /\ ws.created < MaxSockets
    /\ ws' = [Connected(ws) EXCEPT !.userConnects = @ + 1, !.quiet = FALSE,
                                   !.event = "connect", !.invoked = FALSE]
    /\ UNCHANGED wsRest

\* lines 152-164: onMessage() or onConnectionChange()
RegisterCallback ==
    /\ ~ws.callbacks
    /\ ws' = [ws EXCEPT !.callbacks = TRUE, !.event = "register", !.invoked = FALSE]
    /\ UNCHANGED wsRest

\* lines 104-108: onopen of this.socket or of an orphan
SocketOpens ==
    /\ \/ /\ ws.cur = "connecting"
          /\ ws' = [ws EXCEPT !.cur = "open", !.reconnectAttempts = 0,
                              !.event = "open", !.invoked = ws.callbacks]
       \/ /\ ws.orphans.connecting > 0
          /\ ws' = [ws EXCEPT !.orphans.connecting = @ - 1, !.orphans.open = @ + 1,
                              !.reconnectAttempts = 0,
                              !.event = "open", !.invoked = ws.callbacks]
    /\ UNCHANGED wsRest

\* lines 110-117: onmessage of an open socket
SocketMessage ==
    /\ ws.cur = "open" \/ ws.orphans.open > 0
    /\ ws.event # "message"
    /\ ws' = [ws EXCEPT !.event = "message", !.invoked = ws.callbacks]
    /\ UNCHANGED wsRest

\* lines 119-123: onclose of this.socket or of an orphan
SocketCloses ==
    /\ \/ /\ ws.cur \in {"connecting", "open"}
          /\ ws' = [AttemptReconnect([ws EXCEPT !.cur = "closed"])
                       EXCEPT !.event = "close", !.invoked = ws.callbacks]
       \/ \E k \in {"connecting", "open", "closing"} :
             /\ ws.orphans[k] > 0
             /\ ws' = [AttemptReconnect([ws EXCEPT !.orphans[k] = @ - 1])
                          EXCEPT !.event = "close", !.invoked = ws.callbacks]
    /\ UNCHANGED wsRest

\* lines 137-140: the reconnect timer fires
ReconnectTimer ==
    /\ ws.timers > 0
    /\ ws.created < MaxSockets
    /\ ws' = [Connected(ws) EXCEPT !.timers = @ - 1,
                                   !.event = "timer", !.invoked = FALSE]
    /\ UNCHANGED wsRest

\* lines 166-173: disconnect()
Disconnect ==
    /\ ~ws.quiet
    /\ ws' = [ws EXCEPT
          !.cur = "null",
          !.orphans.closing = IF ws.cur \in {"connecting", "open"} THEN @ + 1 ELSE @,
          !.callbacks = FALSE, !.quiet = TRUE,
          !.event = "disconnect", !.invoked = FALSE]
    /\ UNCHANGED wsRest

(***************************************************************************)
(* The submit-request form (part_007).  A file is the number of its pick;  *)
(* an analysis result is written as the number of the file it is about.    *)
(* While an upload is awaited the form's controls are disabled (lines 418, *)
(* 436, 468), so an upload is one step.                                    *)
(***************************************************************************)
MaxFormImages == 5

MaxPicked == 6

rfRest == <<fuVars, arVars, postVars, fmVars, getVars, msg_op, sse, chat, ws>>

RfIdle ==
    rf = [images |-> <<>>, aiResults |-> <<>>, picked |-> 0, alert |-> "",
          sent |-> <<>>]

\* the files picked in one change event: their count and which are valid
Picks == { <<TRUE>>, <<FALSE>>, <<TRUE, TRUE>>, <<FALSE, TRUE>> }

\* lines 161-165: the valid files of a pick, numbered from rf.picked + 1
ValidFiles(pick) ==
    LET F[n \in 0..Len(pick)] ==
            IF n = 0 THEN <<>>
            ELSE IF pick[n] THEN Append(F[n - 1], rf.picked + n) ELSE F[n - 1]
    IN  F[Len(pick)]

\* lines 156-229: handleImageUpload
HandleImageUpload ==
    /\ Len(rf.images) < MaxFormImages
    /\ \E pick \in Picks, analysis \in {"ok", "not ok", "throw"} :
          LET validFiles == ValidFiles(pick)
          IN  /\ rf.picked + Len(pick) <= MaxPicked
              /\ IF Len(validFiles) + Len(rf.images) > MaxFormImages
                 THEN rf' = [rf EXCEPT !.alert = "maximum", !.picked = @ + Len(pick)]
                 ELSE IF Len(validFiles) = 0
                 THEN rf' = [rf EXCEPT !.alert = "no valid", !.picked = @ + Len(pick)]
                 ELSE IF analysis = "ok"
                 THEN rf' = [rf EXCEPT !.aiResults = @ \o validFiles,
                                       !.images = @ \o validFiles,
                                       !.alert = "analyzed",
                                       !.picked = @ + Len(pick)]
                 ELSE rf' = [rf EXCEPT !.images = @ \o validFiles,
                                       !.alert = "failed",
                                       !.picked = @ + Len(pick)]
    /\ UNCHANGED rfRest

\* filter((_, i) => i !== index)
FilterIndex(seq, index) ==
    IF index > Len(seq) THEN seq
    ELSE [k \in 1..(Len(seq) - 1) |-> IF k < index THEN seq[k] ELSE seq[k + 1]]

\* lines 231-237: removeImage
RemoveImage ==
    /\ \E index \in 1..Len(rf.images) :
          rf' = [rf EXCEPT !.images = FilterIndex(@, index),
                           !.aiResults = FilterIndex(@, index),
                           !.alert = ""]
    /\ UNCHANGED rfRest

\* lines 311-324: handleSubmit sends the analyses and the images side by side
HandleSubmit ==
    /\ Len(rf.images) > 0
    /\ rf.sent = <<>>
    /\ rf' = [rf EXCEPT !.sent = <<rf.aiResults, rf.images>>, !.alert = ""]
    /\ UNCHANGED rfRest

AuxIdle == FmIdle /\ GetIdle /\ MsgIdle /\ SseIdle /\ ChatIdle /\ WsIdle /\ RfIdle

PostSteps ==
    \/ Authenticate
    \/ ValidateInputs
    \/ VerifyProperty
    \/ AnalyzeImages
    \/ GenerateProcedure
    \/ Translate
    \/ TranslationSettles
    \/ AssembleTranslation
    \/ UploadImages
    \/ CreateMaintenance
    \/ CreateResource
    \/ CreateDocumentation
    \/ SendMessage

Next == PostSteps \/ Summarize

NextEndToEnd == PostSteps \/ SummarizeEndToEnd

Init == PostInit /\ FuIdle /\ ArIdle /\ AuxIdle

InitUrgency == FuInit /\ ArIdle /\ PostIdle /\ AuxIdle

InitAnalyze == ArInit /\ FuIdle /\ PostIdle /\ AuxIdle

\* the maintenance route, the summarization answered by any server
Spec == Init /\ [][Next]_vars

\* the maintenance route together with the analyze-request route
SpecEndToEnd == Init /\ [][NextEndToEnd]_vars

\* determineFallbackUrgency on its own
SpecUrgency == InitUrgency /\ [][Classify]_vars

\* the analyze-request route on its own
SpecAnalyze == InitAnalyze /\ [][AnalyzeRequest]_vars

\* submissions of user 1 for her own account and for the account of user 4,
\* and one without a session
TicketForms ==
    { Form("1", Title5, Leak10, "1", <<ImgOk>>, FALSE, "absent"),
      Form("1", Title5, Leak10, "4",
           <<ImgOk, ImgOk, ImgOk, ImgOk, Img("e.png", "image/png", MaxFileSize)>>, FALSE, "absent"),
      Form("", Title5, Leak10, "1", <<ImgOk>>, FALSE, "absent") }

InitTickets ==
    PostInit /\ form \in TicketForms /\ FuIdle /\ ArIdle /\ AuxIdle

\* the steps of a submission that asks for no translation, and the GET route
NextTickets ==
    \/ Authenticate
    \/ ValidateInputs
    \/ VerifyProperty
    \/ AnalyzeImages
    \/ Summarize
    \/ GenerateProcedure
    \/ Translate
    \/ UploadImages
    \/ CreateMaintenance
    \/ CreateResource
    \/ CreateDocumentation
    \/ SendMessage
    \/ GetMaintenance

\* a submission, then a GET request
SpecTickets == InitTickets /\ [][NextTickets]_vars

InitMessages == PostIdle /\ FuIdle /\ ArIdle /\ AuxIdle

\* the routes that write the Messages table, in any order
SpecMessages == InitMessages /\ [][PostMessage \/ NotifyLandlord \/ MarkRead]_vars

InitEvents == PostIdle /\ FuIdle /\ ArIdle /\ AuxIdle

\* connects, aborts, cancels and broadcasts in any order
SpecEvents == InitEvents /\ [][Connect \/ AbortStream \/ Cancel \/ Broadcast]_vars

InitChat == PostIdle /\ FuIdle /\ ArIdle /\ AuxIdle

NextChat ==
    \/ SelectConversation \/ ToggleMessageInfo \/ PollTick \/ LoadMore
    \/ ServeFetch \/ DeliverFetch \/ Send \/ ServePost \/ DeliverPost

\* the chat page with its requests answered in any order
SpecChat == InitChat /\ [][NextChat]_vars

InitSocket == PostIdle /\ FuIdle /\ ArIdle /\ AuxIdle

NextSocket ==
    \/ UserConnect \/ RegisterCallback \/ SocketOpens \/ SocketMessage
    \/ SocketCloses \/ ReconnectTimer \/ Disconnect

\* the calls of the user of the service and the events of its sockets
SpecSocket == InitSocket /\ [][NextSocket]_vars

InitRequestForm == PostIdle /\ FuIdle /\ ArIdle /\ AuxIdle

\* image additions, removals and the submission of the form
SpecRequestForm ==
    InitRequestForm /\ [][HandleImageUpload \/ RemoveImage \/ HandleSubmit]_vars

InitFormat == FmInit /\ FuIdle /\ ArIdle /\ PostIdle /\ GetIdle /\ MsgIdle /\ SseIdle /\ ChatIdle /\ WsIdle /\ RfIdle

\* formatProcedureMessage on its own, applied once and once more
SpecFormat == InitFormat /\ [][Format \/ FormatAgain]_vars


(***************************************************************************)
(* Properties.                                                             *)
(***************************************************************************)
PassedValidation == user # 0

Done == pc = "done"

TicketRows == { i \in 1..Len(maintenanceTable) :
                   maintenanceTable[i].maintenanceId = maintenance }

ResourceRows == { i \in 1..Len(resourceTable) :
                     /\ resourceTable[i].referenceId = maintenance
                     /\ resourceTable[i].referenceType = "Maintenance" }

DocumentationRows == { i \in 1..Len(documentationTable) :
                          documentationTable[i].maintenanceID = maintenance }

TicketPersisted == maintenance # 0 /\ TicketRows # {}

UrgencyLevels == { JSNum(k) : k \in 1..4 }

UrgencyTexts == {"Low", "Medium", "High", "Critical"}

\* C1: for a submission that passed validation, the handler answers 500 only
\* when the ticket write fails; a failing Resource or Documentation write
\* does not fail the request, and the created ticket stays persisted.
C1_ServerErrorOnlyWhenTicketWriteFails ==
    (Done /\ PassedValidation) =>
        /\ response.status = 500 => log.persistence = "maintenance"
        /\ maintenance # 0 => TicketPersisted

\* C2: a submission rejected with a validation error (400) has made no call
\* to the image-analysis, summarization, procedure, translation or upload
\* service and has written no ticket, Resource, Documentation or Message row.
C2_RejectedBeforeAnyCallOrWrite ==
    response.status = 400 =>
        /\ calls = NoCalls
        /\ maintenanceTable = <<EarlierTicket>>
        /\ resourceTable = <<EarlierResource>>
        /\ documentationTable = <<>>
        /\ messagesTable = <<>>

C2_Witness ==
    /\ Done
    /\ response.status = 400
    /\ response.message = "Maximum of 5 images allowed."

AllRemoteCallsFailed ==
    /\ log.analysis = "failed"
    /\ log.summarization = "failed"
    /\ log.procedure = "failed"
    /\ form.translateToTagalog =>
          log.translationFailed = 1..Len(StepLines(procedureText))

\* the text cut to its first 200 characters, three dots appended
IsCutTo200(x, raw) ==
    IF StrLen(raw) <= 200 THEN x = raw
    ELSE /\ x.dots
         /\ StrLen(x) = 203
         /\ Len(x.s) <= Len(raw.s)
         /\ x.s = SubSeq(raw.s, 1, Len(x.s))

StepNumbers(procedure) ==
    [i \in 1..Len(StepLines(procedure)) |-> StepLines(procedure)[i][1].n]

\* C3: when the image-analysis, summarization, procedure and translation
\* calls all fail, the submission is not aborted by them; with the rows
\* written it ends 201 with a persisted ticket, urgency 2, the truncated raw
\* description as summary and the canned five steps as procedure.
C3_AllRemoteFailuresStillSucceed ==
    (pc \in {"upload", "ticket", "resources", "notify", "done"} /\ AllRemoteCallsFailed) =>
        /\ response.status = 500 => log.persistence # "none"
        /\ urgencyLevel = JSNum(2)
        /\ finalProcessedRequest.t = "string"
        /\ IsCutTo200(finalProcessedRequest.str, form.rawRequest)
        /\ formattedProcedure.procedure = CatchProcedure(finalProcessedRequest)
        /\ StepNumbers(formattedProcedure.procedure) = <<1, 2, 3, 4, 5>>
        /\ (Done /\ log.persistence = "none") =>
              /\ response.status = 201
              /\ response.urgency = JSNum(2)
              /\ response.summary = finalProcessedRequest
              /\ TicketPersisted
              /\ \A i \in TicketRows :
                    /\ maintenanceTable[i].processedRequest = finalProcessedRequest
                    /\ maintenanceTable[i].urgency = "Medium"

C3_Witness ==
    /\ Done
    /\ AllRemoteCallsFailed
    /\ form.translateToTagalog
    /\ response.status = 201

\* C4: for every successful submission the urgency of the response, of the
\* Documentation record and of the ticket is one of the levels 1, 2, 3, 4,
\* whatever the summarization endpoint returned as urgencyLevel.
C4_UrgencyAlwaysOneOfFour ==
    (Done /\ response.status = 201) =>
        /\ response.urgency \in UrgencyLevels
        /\ \A i \in DocumentationRows :
              documentationTable[i].documentation.urgencyLevel \in UrgencyLevels
        /\ \A i \in TicketRows : maintenanceTable[i].urgency \in UrgencyTexts

SuccessfullyUploaded == IF log.upload = "ok" THEN Len(form.images) ELSE 0

\* C5: after a successful submission the number of Resource rows of the new
\* ticket equals the number of successfully uploaded attachments; no Resource
\* row is created when the upload stage failed.
C5_OneResourcePerUploadedAttachment ==
    (Done /\ response.status = 201) =>
        Cardinality(ResourceRows) = SuccessfullyUploaded

IsFailureMarker(url) == url.kind # "url"

\* C6: when the upload stage fails, the batch is replaced by a single failure
\* marker in the uploaded-URL list, the request is not aborted, the ticket is
\* still written and the response is 201 carrying that marker.
C6_UploadFailureIsRecordedNotFatal ==
    log.upload = "failed" =>
        /\ Len(uploadedUrls) = 1 /\ IsFailureMarker(uploadedUrls[1])
        /\ pc \in {"ticket", "resources", "notify", "done"}
        /\ response.status = 500 => log.persistence # "none"
        /\ (Done /\ log.persistence = "none") =>
              /\ response.status = 201
              /\ TicketPersisted
              /\ Len(response.uploadedUrls) = 1
              /\ IsFailureMarker(response.uploadedUrls[1])

C6_Witness ==
    /\ Done
    /\ log.upload = "failed"
    /\ response.status = 201
    /\ response.uploadedUrls = <<FailedToUpload>>

\* the keyword occurs in the text, letter case ignored
Mentions(text, keyword) ==
    \E i \in 1..Len(text.s) :
        /\ i + Len(keyword) - 1 <= Len(text.s)
        /\ \A j \in 1..Len(keyword) :
              ToLowerChar(text.s[i + j - 1]) = ToLowerChar(keyword[j])

MentionsAny(text, keywords) == \E k \in keywords : Mentions(text, k)

\* C7: determineFallbackUrgency returns 4 for every text with a critical
\* keyword, 3 for every text with a high keyword and no critical one, and 2
\* for every other text (medium keywords only, or no keyword); the result is
\* always one of 2, 3, 4.
C7_FallbackUrgencyByKeyword ==
    fu_pc = "returned" =>
        /\ fu_result \in {2, 3, 4}
        /\ MentionsAny(fu_desc, CriticalPatterns) => fu_result = 4
        /\ (~MentionsAny(fu_desc, CriticalPatterns) /\ MentionsAny(fu_desc, HighPatterns))
              => fu_result = 3
        /\ (~MentionsAny(fu_desc, CriticalPatterns) /\ ~MentionsAny(fu_desc, HighPatterns))
              => fu_result = 2

C7_Witness ==
    /\ fu_pc = "returned"
    /\ fu_result = 3
    /\ Mentions(fu_desc, <<"n","o"," ","h","o","t"," ","w","a","t","e","r">>)

\* C8: when the call to the remote text-understanding service fails for a
\* request that carries user text, the analyze-request endpoint answers with
\* a successful body: a fallback summary and the urgency of the local keyword
\* classifier on that text.
C8_RemoteFailureAnsweredByFallback ==
    ( /\ ar_pc = "responded"
      /\ ar_called
      /\ ar_remote.threw \/ ~ar_remote.ok
      /\ Truthy(ar_body.userText) ) =>
        /\ ar_resp.status = 200
        /\ ar_resp.summary = ar_body.userText
        /\ ar_resp.urgencyLevel = JSNum(determineFallbackUrgency(ar_body.userText.str))

\* C9: the analyze-request endpoint accepts the request that the orchestrator
\* builds for a valid submission, {title, userDescription, imageAnalysis,
\* frontendAiAnalysis}, and answers it with {summary, urgencyLevel}.
C9_OrchestratorRequestAccepted ==
    (ar_pc = "responded" /\ Truthy(ar_body.userDescription)) =>
        /\ ar_resp.status # 400
        /\ ar_called

LeakOnly(text) ==
    /\ Mentions(text, <<"l","e","a","k">>)
    /\ ~MentionsAny(text, CriticalPatterns)

Formatted == formattedProcedure # NoProcedureMessage

\* the text handed to formatProcedureMessage (line 254)
HandedToFormatter ==
    IF form.translateToTagalog THEN tagalogProcedure ELSE procedureText

\* the "Step N:" markers of a text; the formatter puts each on a line of its own
StepMarkers(text) == Len(SelectSeq(text, LAMBDA tok : tok.k = "step"))

CannedTemplate ==
    IF form.translateToTagalog THEN TemplateTagalog(finalProcessedRequest)
    ELSE TemplateEnglish(finalProcessedRequest)

\* C11: whenever the text handed to formatProcedureMessage has fewer than 3
\* "Step N:" lines (an empty text included), the text is discarded and the
\* formatted procedure is the canned five-step template, in English or in
\* Tagalog according to the language flag.
C11_FewerThanThreeStepsGiveTemplate ==
    (Formatted /\ StepMarkers(HandedToFormatter) < 3) =>
        formattedProcedure.procedure = CannedTemplate

\* the texts of the formatter's Tagalog template
TagalogTexts ==
    { TemplateTagalog(JSUndef)[i].id : i \in 1..Len(TemplateTagalog(JSUndef)) } \ {""}

\* a piece of step text is Tagalog: translated, or from the Tagalog template
InTagalog(tok) == tok.k = "tl" \/ (tok.k = "txt" /\ tok.id \in TagalogTexts)

StepTexts(text) == SelectSeq(text, LAMBDA tok : tok.k \in {"txt", "tl"})

\* C12: when the procedure-generation call fails, the procedure of the final
\* message has exactly the five lines "Step 1:" to "Step 5:" of a canned
\* template, in Tagalog when translation was requested and in English
\* otherwise, also when translation calls fail.
C12_GenerationFailureGivesTemplateInLanguage ==
    (Formatted /\ log.procedure = "failed") =>
        /\ StepNumbers(formattedProcedure.procedure) = <<1, 2, 3, 4, 5>>
        /\ Len(SplitLines(formattedProcedure.procedure)) = 5
        /\ \A i \in 1..Len(StepTexts(formattedProcedure.procedure)) :
              InTagalog(StepTexts(formattedProcedure.procedure)[i])
                 <=> form.translateToTagalog

\* the translation stage has run and its result has been formatted
Assembled == form.translateToTagalog /\ Formatted

\* C13: with translation requested, for every set F of steps whose
\* translation call fails, the assembled procedure has as many steps as the
\* original, the original text for exactly the steps of F and translated
\* text for every other step; the translation stage never ends the request.
C13_FailedStepsKeepOriginalText ==
    /\ pc \in {"translating", "upload"} => response = NoResponse
    /\ Assembled =>
          LET steps == StepLines(procedureText)
              assembled == StepLines(tagalogProcedure)
              F == log.translationFailed
          IN  /\ Len(assembled) = Len(steps)
              /\ \A i \in 1..Len(steps) :
                    LET text == StepContent(assembled[i])
                    IN  /\ i \in F => text = StepContent(steps[i])
                        /\ (i \notin F /\ StepContent(steps[i]) # <<>>) =>
                              /\ text # <<>>
                              /\ \A j \in 1..Len(text) : text[j].k = "tl"

C13_Witness ==
    /\ Done
    /\ response.status = 201
    /\ Assembled
    /\ Len(StepLines(procedureText)) = 3
    /\ log.translationFailed = {2}

\* C14: the translation calls of the steps are all pending together, and
\* whatever the order in which they settle, the assembled procedure lists
\* the steps in their original order, each with the step number and the
\* translation of the step it was requested for.
C14_AssemblyIgnoresCompletionOrder ==
    /\ pc = "translating" =>
          /\ Len(translatedSteps) = Len(StepLines(procedureText))
          /\ \A i \in 1..Len(translatedSteps) :
                i \in inFlight <=> translatedSteps[i] = Unsettled
    /\ Assembled =>
          /\ StepNumbers(tagalogProcedure) = StepNumbers(procedureText)
          /\ tagalogProcedure = TranslateProcedure(procedureText, log.translationFailed)

C14_Witness ==
    /\ Done
    /\ response.status = 201
    /\ Assembled
    /\ log.translationOvertook
    /\ Len(StepLines(procedureText)) = 5
    /\ log.translationFailed = {4}

\* the rows of the request that the notification must leave alone
RequestRows == <<maintenanceTable, resourceTable, documentationTable>>

\* C15: the notification is written after the ticket, as a Message from the
\* tenant of the submission to the landlord id 2, unread, with the formatted
\* procedure as text; when the write fails the response is the same 201 as
\* when it succeeds and the ticket, Resource and Documentation rows stay as
\* they were.
C15_NotificationFailureIsSwallowed ==
    /\ [](\A i \in 1..Len(messagesTable) :
            /\ TicketPersisted
            /\ \A t \in TicketRows : messagesTable[i].senderID = maintenanceTable[t].userId
            /\ messagesTable[i].senderID = ParseInt(form.userId)
            /\ messagesTable[i].receiverID = 2
            /\ messagesTable[i].read = FALSE
            /\ messagesTable[i].message = formattedProcedure)
    /\ [](log.message # "none" =>
            /\ response = SuccessResponse
            /\ response.status = 201
            /\ Len(messagesTable) = IF log.message = "ok" THEN 1 ELSE 0)
    /\ [][pc = "notify" => RequestRows' = RequestRows]_vars

C15_Witness ==
    /\ Done
    /\ log.message = "failed"
    /\ response.status = 201
    /\ messagesTable = <<>>
    /\ TicketPersisted
    /\ DocumentationRows # {}

\* the ticket that a row refers to exists
TicketExists(id) ==
    \E t \in 1..Len(maintenanceTable) : maintenanceTable[t].maintenanceId = id

\* C16: every submission answered with 201 has created exactly one ticket
\* row, with status 'pending', and exactly one Documentation row that refers
\* to it; in every state each Documentation row and each Resource row of
\* type Maintenance refers to an existing ticket, and a Documentation row is
\* never changed after its creation.
C16_OneTicketOneDocumentation ==
    /\ [](response.status = 201 =>
            /\ Len(maintenanceTable) = Len(<<EarlierTicket>>) + 1
            /\ Cardinality(TicketRows) = 1
            /\ \A t \in TicketRows : maintenanceTable[t].status = "pending"
            /\ Len(documentationTable) = 1
            /\ Cardinality(DocumentationRows) = 1)
    /\ [](/\ \A d \in 1..Len(documentationTable) :
                 TicketExists(documentationTable[d].maintenanceID)
          /\ \A r \in 1..Len(resourceTable) :
                 resourceTable[r].referenceType = "Maintenance" =>
                    TicketExists(resourceTable[r].referenceId))
    /\ [][/\ Len(documentationTable') >= Len(documentationTable)
          /\ \A d \in 1..Len(documentationTable) :
                 documentationTable'[d] = documentationTable[d]]_vars

C16_Witness ==
    /\ Done
    /\ response.status = 201
    /\ Cardinality(ResourceRows) = 2
    /\ Cardinality(DocumentationRows) = 1
    /\ \A t \in TicketRows : maintenanceTable[t].status = "pending"

\* the user named by the form exists and has a property
HasProperty(f) ==
    /\ ParseInt(f.userId) \in DOMAIN UsersTable
    /\ UsersTable[ParseInt(f.userId)] # 0

\* the rules of the submission form: title of 5 characters or more,
\* description of 10 or more, 1 to 5 attachments, each an image of at most 10MB
MeetsRules(f) ==
    /\ StrLen(f.title) >= 5
    /\ StrLen(f.rawRequest) >= 10
    /\ Len(f.images) \in 1..5
    /\ \A i \in 1..Len(f.images) :
          /\ f.images[i].type \in {"image/jpeg", "image/png"}
          /\ f.images[i].size <= 10485760

\* C17: a submission of a signed-in user with a property passes validation
\* exactly when the title has at least 5 characters, the description at
\* least 10, and there are 1 to 5 attachments, each of an image type and of
\* at most 10MB (the boundary lengths, counts and sizes included).
C17_ValidationExactlyByRules ==
    (pc \notin {"auth", "validate"} /\ form.session # "" /\ HasProperty(form)) =>
        /\ response.status # 400 <=> MeetsRules(form)
        /\ (pc # "property" /\ MeetsRules(form)) => PassedValidation

C17_Witness ==
    /\ pc = "analyze"
    /\ PassedValidation
    /\ StrLen(form.title) = 5
    /\ StrLen(form.rawRequest) = 10
    /\ Len(form.images) = 5
    /\ form.images[5].size = 10485760

\* the summarization call was made and failed (non-OK answer or no answer)
SummarizationFailed == log.summarization = "failed"

\* the summary of the ticket and of the 201 response is the given text
SummaryEverywhere(text) ==
    /\ finalProcessedRequest = JSStr(text)
    /\ \A t \in TicketRows : maintenanceTable[t].processedRequest = JSStr(text)
    /\ response.status = 201 => response.summary = JSStr(text)

\* C18 as stated: when the summarization call fails, the summary stored in
\* the ticket and returned to the caller is the raw description cut to 200
\* characters, the raw description itself when it has at most 200.
C18_FailedSummaryIsFirst200 ==
    SummarizationFailed =>
        /\ SummaryEverywhere(Substring200(form.rawRequest))
        /\ StrLen(finalProcessedRequest.str) <= 200

\* C18, amended: when the summarization call fails, the summary stored in the
\* ticket and returned to the caller is the raw description itself when it
\* has at most 200 characters, and otherwise its first 200 characters
\* followed by "..." (203 characters).
C18_FailedSummaryIsFirst200AndDots ==
    SummarizationFailed =>
        /\ SummaryEverywhere(Truncated(form.rawRequest))
        /\ IF StrLen(form.rawRequest) <= 200
           THEN finalProcessedRequest.str = form.rawRequest
           ELSE /\ StrLen(finalProcessedRequest.str) = 203
                /\ finalProcessedRequest.str.dots
                /\ [finalProcessedRequest.str EXCEPT !.dots = FALSE]
                      = Substring200(form.rawRequest)

C18_Witness ==
    /\ Done
    /\ response.status = 201
    /\ SummarizationFailed
    /\ StrLen(form.rawRequest) = 201
    /\ StrLen(response.summary.str) = 203
    /\ TicketPersisted

\* the position of a stage in the handler; 0 before the pipeline, 10 at the end
StageOf(at) ==
    CASE at = "analyze" -> 1
      [] at = "summarize" -> 2
      [] at = "procedure" -> 3
      [] at \in {"translate", "translating"} -> 4
      [] at = "upload" -> 5
      [] at = "ticket" -> 6
      [] at = "resources" -> 7
      [] at = "notify" -> 9
      [] at = "done" -> 10
      [] OTHER -> 0

\* a row of this request is in the database
RowWritten ==
    \/ maintenanceTable # <<EarlierTicket>>
    \/ resourceTable # <<EarlierResource>>
    \/ documentationTable # <<>>
    \/ messagesTable # <<>>

TranslationStarted ==
    calls.translation > 0 \/ pc = "translating" \/ translatedSteps # <<>>

\* C19: the stages of a valid submission start in the order image analysis,
\* summarization, procedure generation, translation (only when requested),
\* upload, ticket write, Resource writes, Documentation write, notification,
\* each after the one before it has finished; no row of the request is
\* written before the upload has finished, and translation is never started
\* when it was not requested.
C19_StagesInFixedOrder ==
    /\ [][StageOf(pc') >= StageOf(pc)]_vars
    /\ [](/\ log.summarization # "none" => (calls.analysis = 1 /\ log.analysis # "none")
          /\ calls.procedure > 0 => log.summarization # "none"
          /\ TranslationStarted => (form.translateToTagalog /\ log.procedure # "none")
          /\ calls.upload > 0 =>
                /\ log.procedure # "none" /\ Formatted /\ inFlight = {}
                /\ form.translateToTagalog =>
                      calls.translation = Len(StepLines(procedureText))
          /\ RowWritten => (calls.upload = 1 /\ log.upload # "none")
          /\ ResourceRows # {} => TicketPersisted
          /\ DocumentationRows # {} =>
                /\ TicketPersisted
                /\ Cardinality(ResourceRows) = Len(uploadedUrls)
          /\ log.message # "none" => DocumentationRows # {}
          /\ ~form.translateToTagalog => ~TranslationStarted)

C19_Witness ==
    /\ Done
    /\ response.status = 201
    /\ form.translateToTagalog
    /\ calls.translation = 5
    /\ log.message = "ok"
    /\ [calls EXCEPT !.translation = 0, !.training = 0] =
          [analysis |-> 1, summarization |-> 1, procedure |-> 1,
           translation |-> 0, upload |-> 1, training |-> 0]

\* C20: during one submission at most one image-analysis call, one
\* summarization call, one procedure-generation call and one upload call are
\* made, and one translation call per procedure step; a call that failed is
\* not made again, its fallback or placeholder is used.
C20_NoRemoteCallIsRepeated ==
    /\ [](/\ calls.analysis <= 1 /\ calls.summarization <= 1
          /\ calls.procedure <= 1 /\ calls.upload <= 1
          /\ calls.translation <= Len(StepLines(procedureText))
          /\ Cardinality(inFlight) + Cardinality(log.translationFailed)
                <= calls.translation
          /\ log.analysis = "failed" => imageAnalysisData = "null"
          /\ log.summarization = "failed" =>
                finalProcessedRequest = JSStr(Truncated(form.rawRequest))
          /\ log.procedure = "failed" =>
                procedureText = CatchProcedure(finalProcessedRequest)
          /\ log.upload = "failed" =>
                (Len(uploadedUrls) = 1 /\ IsFailureMarker(uploadedUrls[1])))
    /\ [][/\ log.analysis # "none" => calls'.analysis = calls.analysis
          /\ log.summarization # "none" => calls'.summarization = calls.summarization
          /\ log.procedure # "none" => calls'.procedure = calls.procedure
          /\ log.upload # "none" => calls'.upload = calls.upload
          /\ pc = "translating" =>
                (calls'.translation = calls.translation /\ inFlight' \subseteq inFlight)
          /\ \A i \in log.translationFailed : i \notin inFlight']_vars

C20_Witness ==
    /\ Done
    /\ response.status = 201
    /\ AllRemoteCallsFailed
    /\ form.translateToTagalog
    /\ calls.analysis = 1 /\ calls.summarization = 1 /\ calls.procedure = 1
    /\ calls.upload = 1 /\ calls.translation = 5

\* the image-analysis call was made and failed (non-OK answer or no answer)
AnalysisFailed == log.analysis = "failed"

\* C21: when the image-analysis call fails, the pipeline continues with
\* imageAnalysisData = null: the summarization request carries a null image
\* analysis, the procedure prompt names no components, the Documentation
\* record stores a null analysis payload and the response reports
\* aiAnalysisUsed = false.
C21_AnalysisFailureLeavesNull ==
    AnalysisFailed =>
        /\ imageAnalysisData = "null" /\ pythonResults = "null"
        /\ pc = "summarize" => response = NoResponse
        /\ SummarizationData.imageAnalysis = JSObj("null")
        /\ ProcedurePrompt.components = ""
        /\ \A d \in DocumentationRows :
              documentationTable[d].documentation.imageAnalysis = "null"
        /\ response.status = 500 => log.persistence # "none"
        /\ response.status = 201 => ~response.aiAnalysisUsed

C21_Witness ==
    /\ Done
    /\ AnalysisFailed
    /\ response.status = 201
    /\ ~response.aiAnalysisUsed
    /\ log.procedure = "ok"
    /\ DocumentationRows # {}

\* the first call fell back to the canned template
FellBack ==
    fm_first.procedure =
        Interpolated(IF fm_in.isTagalog THEN TemplateTagalog(fm_in.summary)
                     ELSE TemplateEnglish(fm_in.summary))

\* C22: the fallback of formatProcedureMessage is idempotent: normalizing the
\* canned five-step template again leaves it unchanged, so formatting the
\* canned fallback yields the same message as formatting the malformed input
\* that triggered it, for the same title, summary, urgency and language flag.
C22_FallbackIsIdempotent ==
    (fm_pc = "again" /\ FellBack) => fm_second = fm_first

\* the ids of the tickets of a user, newest first
NewestFirstOf(userId) ==
    LET own == SelectSeq(maintenanceTable, LAMBDA row : row.userId = userId)
    IN  [i \in 1..Len(own) |-> own[Len(own) + 1 - i].maintenanceId]

DocumentationOf(id) ==
    SelectSeq(documentationTable, LAMBDA d : d.maintenanceID = id)

ResourcesOf(id) ==
    SelectSeq(resourceTable,
              LAMBDA r : r.referenceId = id /\ r.referenceType = "Maintenance")

\* the answer lists exactly the tickets of the requesting user, newest
\* first, each with its Documentation rows
ListsOwnTickets ==
    LET listed == get_resp.maintenanceRequests
    IN  /\ [i \in 1..Len(listed) |-> listed[i].maintenance.maintenanceId]
              = NewestFirstOf(ParseInt(get_req.session))
        /\ \A i \in 1..Len(listed) :
              /\ listed[i].maintenance.userId = ParseInt(get_req.session)
              /\ listed[i].maintenance \in { maintenanceTable[t] : t \in 1..Len(maintenanceTable) }
              /\ "documentations" \in DOMAIN listed[i].included
              /\ listed[i].included["documentations"]
                    = DocumentationOf(listed[i].maintenance.maintenanceId)

\* C23: the maintenance GET endpoint returns, for the requesting user,
\* exactly the tickets owned by that user, newest first, each ticket
\* carrying its Documentation rows and its Resource rows.
C23_GetListsOwnTicketsWithRows ==
    (get_pc = "responded" /\ get_resp.status = 200) =>
        /\ ListsOwnTickets
        /\ \A i \in 1..Len(get_resp.maintenanceRequests) :
              LET item == get_resp.maintenanceRequests[i]
              IN  /\ "resources" \in DOMAIN item.included
                  /\ item.included["resources"] = ResourcesOf(item.maintenance.maintenanceId)

\* a GET for another user's tickets, or without a session, lists nothing
GetIsolated ==
    (get_pc = "responded" /\ get_req.userId # get_req.session) =>
        /\ get_resp.maintenanceRequests = <<>>
        /\ get_resp.status = IF get_req.session = "" THEN 401 ELSE 400

\* a submission without a session ends 401 with no call made and no row written
NoSessionNoEffect ==
    (form.session = "" /\ pc # "auth") =>
        /\ pc = "done" /\ response.status = 401
        /\ calls = NoCalls
        /\ maintenanceTable = <<EarlierTicket>> /\ resourceTable = <<EarlierResource>>
        /\ documentationTable = <<>> /\ messagesTable = <<>>

\* C25: every ticket and notification message created by the maintenance
\* POST handler belongs to the user of the session, whatever the userId
\* field of the form says; a GET whose userId differs from the session
\* user's id returns no tickets; a request without a session gets 401 with
\* no external call and no row written.
C25_TicketsIsolatedBetweenUsers ==
    /\ \A t \in TicketRows : maintenanceTable[t].userId = ParseInt(form.session)
    /\ \A m \in 1..Len(messagesTable) :
          messagesTable[m].senderID = ParseInt(form.session)
    /\ GetIsolated
    /\ NoSessionNoEffect

\* C24: every Message is created with read = false; afterwards its read flag
\* changes only from false to true, only through the mark-read request of
\* the signed-in user who is the receiver of the message, and only for
\* messages sent by the partner named in that request; nothing sets it back
\* to false, and a sender who is not the receiver cannot change it.
C24_ReadFlagOnlySetByReceiver ==
    [][/\ Len(messagesTable') >= Len(messagesTable)
       /\ \A i \in 1..Len(messagesTable') :
             IF i > Len(messagesTable)
             THEN messagesTable'[i].read = FALSE
             ELSE /\ [messagesTable'[i] EXCEPT !.read = FALSE]
                       = [messagesTable[i] EXCEPT !.read = FALSE]
                  /\ messagesTable[i].read => messagesTable'[i].read
                  /\ (~messagesTable[i].read /\ messagesTable'[i].read) =>
                        /\ msg_op'.kind = "markRead"
                        /\ msg_op'.session # ""
                        /\ ParseInt(msg_op'.session) = messagesTable[i].receiverID
                        /\ ParseInt(msg_op'.partner) = messagesTable[i].senderID]_vars

C24_Witness ==
    /\ Len(messagesTable) = 2
    /\ messagesTable[1] = [NotificationRow("1", NoProcedureMessage) EXCEPT !.read = TRUE]
    /\ messagesTable[2].senderID = 2 /\ messagesTable[2].receiverID = 1
    /\ ~messagesTable[2].read
    /\ msg_op = MsgOp("markRead", "2", "1", 200)

\* the open streams are registered and have received every broadcast to their user
OpenStreamsServed ==
    \A id \in 1..Len(sse.streams) :
       IsOpen(id) => id \in sse.clients /\ sse.enqueued[id] = sse.due[id]

\* no stream has received a broadcast addressed to another user
NoForeignBroadcast ==
    \A id \in 1..Len(sse.streams) :
       \A k \in 2..Len(sse.enqueued[id]) :
          sse.enqueued[id][k][2] = sse.streams[id].userId

\* C26: closing or cancelling one event stream unregisters exactly that
\* connection: every other open stream, another stream of the same user
\* included, stays in the client set and receives each broadcast sent to its
\* user, and a stream never receives a broadcast addressed to another user.
C26_ClosingUnregistersOnlyThatStream ==
    OpenStreamsServed /\ NoForeignBroadcast

\* no stored message is displayed twice
NoMessageTwice ==
    \A i, j \in 1..Len(chat.messages) :
       (chat.messages[i] = chat.messages[j] /\ chat.messages[i] > 0) => i = j

\* the poll timer runs exactly while a conversation is selected and the
\* MessageInfo panel is closed, and there is one timer at most
OnePollTimer ==
    chat.timers = IF chat.conv /\ ~chat.info THEN 1 ELSE 0

\* C27: under any interleaving of sending a message, the 5-second poll and
\* load-more, the displayed list never contains the same stored message
\* twice; the poll timer runs only while a conversation is selected and the
\* MessageInfo panel is closed, with one timer at most.
C27_ChatListWithoutDuplicates ==
    NoMessageTwice /\ OnePollTimer

\* C28: after disconnect() the service stays disconnected: until the user
\* of the service calls connect() again, no new socket is opened and no
\* registered callback is invoked; the close event of the socket that
\* disconnect() closed does not start a reconnect.
C28_DisconnectStaysDisconnected ==
    [][(ws.quiet /\ ws'.quiet) =>
          /\ ws'.created = ws.created
          /\ ws'.timers <= ws.timers
          /\ ~ws'.invoked]_vars

\* the sockets of the service that are open or connecting
LiveSockets ==
    (IF ws.cur \in {"connecting", "open"} THEN 1 ELSE 0)
    + ws.orphans.connecting + ws.orphans.open

AttemptsInRange == ws.reconnectAttempts \in 0..maxReconnectAttempts

\* an open resets the counter, and at 5 no reconnect is scheduled
AttemptSteps ==
    [][/\ ws'.event = "open" => ws'.reconnectAttempts = 0
       /\ ws'.timers > ws.timers => ws.reconnectAttempts < maxReconnectAttempts
       /\ ws'.reconnectAttempts > ws.reconnectAttempts =>
             ws'.event = "close" /\ ws'.timers = ws.timers + 1]_vars

\* C29: reconnectAttempts stays within 0..5, is reset to 0 each time a
\* connection opens, and once 5 attempts have failed no further reconnect is
\* scheduled; at no time does the service hold more than one socket that is
\* open or connecting.
C29_AtMostFiveReconnectsOneSocket ==
    [](AttemptsInRange /\ LiveSockets <= 1) /\ AttemptSteps

\* the analysis at index i is the analysis of the image at index i
AnalysesAligned ==
    \A i \in 1..Len(rf.aiResults) :
       i <= Len(rf.images) /\ rf.aiResults[i] = rf.images[i]

AtMostFiveImages == Len(rf.images) <= MaxFormImages

\* C30: after any sequence of image additions, whose analysis succeeds or
\* fails, and image removals, the analysis stored at index i of aiResults
\* belongs to the image at index i of images, so that removing an image
\* removes its own analysis and no other; the form never holds more than 5
\* images.
C30_AnalysisFollowsItsImage ==
    AnalysesAligned /\ AtMostFiveImages

====
